---- MODULE Spec2Model ----
(***************************************************************************)
(* SecNet: the consent-request ledger (routes/consent, models/            *)
(* ConsentRequest, the socket handlers' expiry cleanup) and the            *)
(* multi-factor verification gate (SecurityMiddleware).                    *)
(*                                                                         *)
(* Request handlers are async functions: every `await` is a point where    *)
(* another handler or the cleanup timer may run, so a handler is a small   *)
(* process whose steps are the code between two awaits.                    *)
(*                                                                         *)
(* The proof service (zkp-service), the credential service (ssi-service),   *)
(* the User document's credential set and the encrypted content store       *)
(* (ipfs-service) each have a specification of their own, and so have the   *)
(* AI co-pilot's monitoring sweep, its score calculation, the proof         *)
(* service's Merkle tree and the verifyDataAccess middleware.               *)
(*                                                                         *)
(* The ledger part follows ONE ConsentRequest document: every route and    *)
(* the cleanup loop read and write a document by its _id only, so          *)
(* documents do not interact and the document followed is arbitrary.       *)
(***************************************************************************)
EXTENDS Integers, Sequences, FiniteSets, TLC

\* ---------------------------------------------------------------- bounds
\* items in the list a Merkle tree is generated for
MaxItems == 4
\* calls of buildMerkleTree the stack holds
MaxFrames == 5
\* requests sent through the rate limiter
MaxRequests == 11
\* half-minute steps of the rate limiter's clock
MaxRateTicks == 2
\* times the monitor's interval fires
MaxTicks == 1
\* anomalies in the list a score is calculated for
MaxAlerts == 4
\* handler invocations (approve, deny, revoke, get) over the document's life
MaxCalls == 2
\* the clock runs from 0 to MaxTime
MaxTime == 1
\* verifications one proof is counted as satisfying
MaxUses == 2
\* storeEncryptedData calls
MaxStores == 1

\* ------------------------------------------------------------- constants
CallIds == 1..MaxCalls
Times == 0..MaxTime

\* registered users (User.findByAddress succeeds); addresses are stored
\* lowercased by both schemas, so they compare by equality
Users == {"0xowner", "0xreq"}

NoDate == -1
NoValue == "absent"

\* ConsentRequest.js: the status enum and its default
StatusEnum == {"pending", "approved", "denied", "expired", "revoked"}
DefaultStatus == "pending"
\* ConsentRequest.js: the dataType enum
DataTypeEnum == {"medical", "financial", "identity", "education", "location", "biometric", "custom"}

\* no document is stored yet
NoDoc == [status |-> "none", owner |-> NoValue, requester |-> NoValue,
          expiresAt |-> NoDate, respondedAt |-> NoDate,
          responseReason |-> FALSE, blockchainData |-> FALSE]

VARIABLES
  request,         \* the stored ConsentRequest document
  now,             \* the clock read by new Date()
  calls,           \* handler invocations: in flight, and the response each one sent
  lastCreate,      \* the response of the latest POST /request
  cleanupPc,       \* cleanup timer: "idle" | "loaded" (document found, save pending)
  notifications,   \* events delivered to a socket: [call, event]
  auditLog,        \* audit records written
  mfa,             \* one run of POST /security/multi-factor
  zkp,             \* proof service: the proof in hand and its verifications
  ssi,             \* credential service: revocations and the latest verification
  userDoc,         \* the User document and the handlers working on it
  ipfs,            \* content store: blocks by CID and the latest store/retrieve
  monitor,         \* AI co-pilot: the analytics profiles and the sweeps in flight
  scoring,         \* one list of anomalies and the score calculated for it
  merkle,          \* one data list and the Merkle tree generated for it
  access,          \* one run of the verifyDataAccess middleware
  limiter          \* the requests that went through rateLimitSecurity

ledgerVars == <<request, now, calls, lastCreate, cleanupPc, notifications>>

moreServiceVars == <<monitor, scoring, merkle, access, limiter>>

serviceVars == <<zkp, ssi, userDoc, ipfs, moreServiceVars>>

vars == <<ledgerVars, auditLog, mfa, serviceVars>>

\* ----------------------------------------------------- ConsentRequest.js
\* virtual isExpired
isExpired(expiresAt, t) ==
  IF expiresAt = NoDate THEN FALSE ELSE t > expiresAt

\* pre('save'): a still-pending document past its expiry is saved as expired
preSave(status, expiresAt, t) ==
  IF isExpired(expiresAt, t) /\ status = "pending" THEN "expired" ELSE status

\* findExpiredRequests that looks for documents already marked expired
findExpiredRequestsMarked(doc, t) ==
  doc.status = "expired" /\ doc.expiresAt # NoDate /\ doc.expiresAt < t

\* statics.findExpiredRequests: does the query match the document
findExpiredRequests(doc, t) ==
  doc.status = "pending" /\ doc.expiresAt # NoDate /\ doc.expiresAt < t

\* methods.approve / deny / revoke: the status each one assigns
TargetStatus(op) ==
  CASE op = "approve" -> "approved"
    [] op = "deny"    -> "denied"
    [] op = "revoke"  -> "revoked"

\* the status each route requires before it calls the method
RequiredStatus(op) ==
  CASE op = "approve" -> "pending"
    [] op = "deny"    -> "pending"
    [] op = "revoke"  -> "approved"

\* the event each route hands to emitToUser
EventOf(op) ==
  CASE op = "approve" -> "access_granted"
    [] op = "deny"    -> "access_denied"
    [] op = "revoke"  -> "access_revoked"

\* -------------------------------------------------------- routes/consent
\* RouteCheck with the status check moved before the data-owner check
RouteCheckStatusFirst(doc, actor, op) ==
  IF doc.status = "none" THEN "NotFound"
  ELSE IF doc.status # RequiredStatus(op) THEN "InvalidState"
  ELSE IF doc.owner # actor THEN "Forbidden"
  ELSE "proceed"

\* The checks of a transition route after findById, in the code's order:
\* 404, then the data-owner check (403), then the status check (400).
RouteCheck(doc, actor, op) ==
  IF doc.status = "none" THEN "NotFound"
  ELSE IF doc.owner # actor THEN "Forbidden"
  ELSE IF doc.status # RequiredStatus(op) THEN "InvalidState"
  ELSE "proceed"

\* a call slot: op, actor, pc ("idle" | "save" | "chain" | "done"); `overdue`
\* tells whether the document was past its expiry when findById loaded it
\* (kept for the calls that answered 200);
\* `stamp` is the respondedAt the method assigned; `result` is the response
\* kind; `seen` is the status in the response body; `wrote`/`chained` tell
\* whether this call's save() / setBlockchainData() reached the store
IdleCall == [op |-> "none", actor |-> NoValue, pc |-> "idle", overdue |-> FALSE,
             stamp |-> NoDate, result |-> "none", seen |-> "none",
             wrote |-> FALSE, chained |-> FALSE]

\* ---------------------------------------------------- verification services
\* zkp-service.js verifyProof: the freshness window (24 h, in hours) and the
\* nonce length (16 random bytes in hex)
ProofWindow == 24
NonceLength == 32

\* the ENS registry: owner(namehash(name)); the zero address for a name that
\* is not registered
ENSOwner(name) == IF name = "owner.eth" THEN "0xowner" ELSE "0x0"

\* ens-service verifyENSOwnership: the registry's owner equals the address;
\* a failed RPC call is caught and answers false
verifyENSOwnership(ensName, address, rpcUp) ==
  IF ~rpcUp THEN FALSE ELSE ENSOwner(ensName) = address

\* verifyProof without the freshness window
verifyProofNoWindow(proof, t) ==
  /\ proof.isValid
  /\ proof.nonceLen = NonceLength

\* zkp-service verifyProof: the stored flag, the 24 h window, the nonce length
verifyProof(proof, t) ==
  /\ proof.isValid
  /\ proof.timestamp > t - ProofWindow
  /\ proof.nonceLen = NonceLength

\* the DID registry: identifiers whose owner is not the zero address
RegisteredDIDs == {"did:holder", "did:issuer"}

\* ssi-service resolveDID: null for an unregistered DID or a failed call
resolveDID(did, didUp) == didUp /\ did \in RegisteredDIDs

\* jwt.verify: the HS256 signature matches and the token's exp is ahead (nbf
\* is the token's time of issue, which has passed when it is presented)
jwtVerify(token, t) == token.signed /\ (token.exp = NoDate \/ t < token.exp)

\* ssi-service verifyCredential
verifyCredential(cred, t, didUp) ==
  IF ~jwtVerify(cred, t) THEN FALSE
  ELSE IF cred.exp # NoDate /\ cred.exp < t THEN FALSE
  ELSE IF ~resolveDID(cred.iss, didUp) THEN FALSE
  ELSE resolveDID(cred.sub, didUp)

\* verifyPresentation with one valid credential sufficing
verifyPresentationSome(p, challenge, t, didUp) ==
  IF ~jwtVerify(p, t) THEN FALSE
  ELSE IF p.exp # NoDate /\ p.exp < t THEN FALSE
  ELSE IF p.nonce # challenge THEN FALSE
  ELSE IF ~resolveDID(p.iss, didUp) THEN FALSE
  ELSE \E cred \in p.creds : verifyCredential(cred, t, didUp)

\* ssi-service verifyPresentation
verifyPresentation(p, challenge, t, didUp) ==
  IF ~jwtVerify(p, t) THEN FALSE
  ELSE IF p.exp # NoDate /\ p.exp < t THEN FALSE
  ELSE IF p.nonce # challenge THEN FALSE
  ELSE IF ~resolveDID(p.iss, didUp) THEN FALSE
  ELSE \A cred \in p.creds : verifyCredential(cred, t, didUp)

\* content present in the IPFS node
StoredCIDs == {"QmData"}

\* dataExists that answers true whatever files.stat does
dataExistsAlways(cid, ipfsUp) == TRUE

\* ipfs-service dataExists: files.stat succeeds; any error answers false
dataExists(cid, ipfsUp) == ipfsUp /\ cid \in StoredCIDs

\* request bodies of the multi-factor route
NoProof == [supplied |-> FALSE, isValid |-> FALSE, timestamp |-> 0, nonceLen |-> 0]
Proofs == [supplied : {TRUE}, isValid : BOOLEAN, timestamp : {0, 1, ProofWindow},
           nonceLen : {NonceLength, 16}]

FarExp == ProofWindow + 5
GoodCred == [signed |-> TRUE, exp |-> FarExp, iss |-> "did:issuer", sub |-> "did:holder"]
ExpiredCred == [signed |-> TRUE, exp |-> 1, iss |-> "did:issuer", sub |-> "did:holder"]
NoPresentation == [supplied |-> FALSE, signed |-> FALSE, exp |-> NoDate,
                   nonce |-> NoValue, iss |-> NoValue, creds |-> {}]
GoodPresentation == [supplied |-> TRUE, signed |-> TRUE, exp |-> FarExp,
                     nonce |-> "n1", iss |-> "did:holder", creds |-> {GoodCred}]
Presentations == {GoodPresentation,
                  [GoodPresentation EXCEPT !.signed = FALSE],
                  [GoodPresentation EXCEPT !.exp = 1],
                  [GoodPresentation EXCEPT !.iss = "did:ghost"],
                  [GoodPresentation EXCEPT !.creds = {GoodCred, ExpiredCred}]}

Bodies == [ensName : {"owner.eth", "ghost.eth"}, userAddress : Users,
           zkpProof : Proofs \cup {NoProof},
           ssiPresentation : Presentations \cup {NoPresentation},
           challenge : {NoValue, "n1", "n2"},
           dataCID : {NoValue, "QmData", "QmGone"}]

NoBody == [ensName |-> NoValue, userAddress |-> NoValue, zkpProof |-> NoProof,
           ssiPresentation |-> NoPresentation, challenge |-> NoValue,
           dataCID |-> NoValue]

NoVerification == [set |-> FALSE, ensVerified |-> FALSE, zkpVerified |-> FALSE,
                   ssiVerified |-> FALSE, dataAccessVerified |-> FALSE]

\* a run of the multi-factor route: `ran` lists the gates evaluated, in
\* order, with their outcomes; `response` is what the caller received
IdleRun == [pc |-> "idle", body |-> NoBody, ran |-> <<>>, response |-> "none",
            verification |-> NoVerification]

NoCreate == [result |-> "none", expiresAt |-> NoDate, at |-> 0,
             complete |-> FALSE, status |-> "none"]

\* ------------------------------------------------------------ proof service
\* sha256(..).digest('hex'): a digest stands for its input (no collisions)
sha256(s) == <<"sha256", s>>
NoHash == <<>>

\* a property that is absent from an object reads as undefined
NoNonce == -1

\* a proof object, as generated by the service or as sent by a client:
\* `made` is "age" (a general proof), "access" (a data-access proof) or
\* "none"; a general proof has no accessHash, a data-access proof no isValid
\* (undefined is falsy); nonceLen is nonce.length, NoNonce without a nonce
NoZkProof == [supplied |-> FALSE, made |-> "none", isValid |-> FALSE,
              accessHash |-> NoHash, timestamp |-> 0, nonceLen |-> NoNonce]

NoAccess == [userId |-> NoValue, dataType |-> NoValue, accessLevel |-> NoValue]

\* the latest run of verifyZKPProof: its proofType and verificationData, the
\* clock, the service's answer, and the response
NoZkRun == [proofType |-> "none", data |-> NoAccess, at |-> 0, isValid |-> FALSE,
            accessGranted |-> FALSE, raised |-> FALSE, response |-> "none"]

\* origin: "none" | "generated" | "client"; holds: the statement the proof was
\* generated for is true; madeFor: the arguments of generateDataAccessProof;
\* uses: the verifications the proof has satisfied
IdleZkp == [proof |-> NoZkProof, origin |-> "none", holds |-> FALSE,
            madeFor |-> NoAccess, last |-> NoZkRun, uses |-> 0]

\* ------------------------------------------------------- credential service
\* the latest run of verifySSICredentials: the presentation and challenge of
\* the body, the clock, the DID registry's availability, the credentials
\* revoked before the run, the service's answer, and the response
NoSsiRun == [ran |-> FALSE, presentation |-> NoPresentation, challenge |-> NoValue,
             at |-> 0, didUp |-> FALSE, revoked |-> {}, isValid |-> FALSE,
             response |-> "none"]

\* revocations: the revocation records that revokeCredential has returned
IdleSsi == [revocations |-> {}, last |-> NoSsiRun]
\* ------------------------------------------------------------------ User.js
\* the credential of a request body: `valid` tells whether it passes the
\* schema's validation (type in the enum, issuer and credentialHash present)
NoCredential == [credentialHash |-> NoValue, isRevoked |-> FALSE, valid |-> FALSE]

\* a handler working on the User document: op is "profile" | "add" |
\* "revoke"; pc is "idle" | "loaded" (findByAddress answered, save pending) |
\* "done"; v is the __v of the copy it loaded
IdleUserCall == [op |-> "none", pc |-> "idle", arg |-> NoCredential, v |-> 0,
                 result |-> "none"]

\* the User document as stored: the credential set, its version key __v, and
\* the number of profile/preference updates written
IdleUserDoc == [ssiCredentials |-> <<>>, v |-> 0, profile |-> 0,
                calls |-> [c \in CallIds |-> IdleUserCall]]
\* ------------------------------------------------------------ ipfs-service
\* payloads and metadata are JSON values (request bodies, and records built
\* of numbers, strings, booleans and null)
NoPayload == [category |-> NoValue, value |-> 0]
NoMetadata == [type |-> NoValue, userAddress |-> NoValue]
NoCID == <<>>

\* the latest storeEncryptedData: its arguments, the addresses it returned and
\* the encryptionKey member of the value it returned; userAddress and dataType
\* are the arguments of storeMedicalData when the store was made through it
NoStore == [ok |-> FALSE, data |-> NoPayload, metadata |-> NoMetadata,
            encryptionKey |-> NoValue, dataCID |-> NoCID, metadataCID |-> NoCID,
            returnedKey |-> NoValue, userAddress |-> NoValue, dataType |-> NoValue]

\* the latest retrieveEncryptedData: its arguments, whether both blocks were
\* read, and what it returned; status is "none" | "ok" | "failed"
NoRetrieve == [status |-> "none", dataCID |-> NoCID, metadataCID |-> NoCID,
               encryptionKey |-> NoValue, read |-> FALSE,
               data |-> NoPayload, metadata |-> NoMetadata]

\* blocks: the contents added to the node; stores: the number of
\* storeEncryptedData calls so far
IdleIpfs == [blocks |-> {}, stores |-> 0, stored |-> NoStore, got |-> NoRetrieve]

\* A specification follows one component. The components share no state (the
\* routes reach each service through its own module), so the state of a
\* component that a specification does not follow is left out of it: its
\* variable holds NotFollowed throughout.
NotFollowed == "not followed"

\* the ledger and the audit log after start-up
InitLedger ==
  /\ request = NoDoc
  /\ now = 0
  /\ calls = [c \in CallIds |-> IdleCall]
  /\ lastCreate = NoCreate
  /\ cleanupPc = "idle"
  /\ notifications = {}
  /\ auditLog = {}

Init ==
  /\ InitLedger
  /\ mfa = NotFollowed
  /\ zkp = NotFollowed
  /\ ssi = NotFollowed
  /\ userDoc = NotFollowed
  /\ ipfs = NotFollowed
  /\ monitor = NotFollowed
  /\ scoring = NotFollowed
  /\ merkle = NotFollowed
  /\ access = NotFollowed
  /\ limiter = NotFollowed

\* ------------------------------------------------------- socket handlers
\* emitToUser: connectedUsers.get(address) finds no socket and nothing
\* happens, or finds one and calls io.to(..).emit(..), where `io` is a free
\* variable of the module (bound only inside setupSocketHandlers): the event
\* is delivered if the process provides a global `io`, and a ReferenceError
\* is thrown otherwise. Sockets connect and disconnect at any time.
emitToUser == {"skipped", "delivered", "threw"}

\* the clock advances
Tick ==
  /\ now < MaxTime
  /\ now' = now + 1
  /\ UNCHANGED <<request, calls, lastCreate, cleanupPc, notifications, auditLog, mfa, serviceVars>>

\* ---------------------------------------------------- POST /request
\* the route's own validation (400), the owner lookup (404), and mongoose's
\* schema validation at save (the enum of dataType), which throws (500)
CreateCheck(owner, dataType, purpose, expiresAt) ==
  IF owner = NoValue \/ dataType = NoValue \/ purpose = NoValue \/ expiresAt = NoDate
    THEN "ValidationError"
  ELSE IF owner \notin Users THEN "NotFound"
  ELSE IF dataType \notin DataTypeEnum THEN "Internal"
  ELSE "proceed"

CreateRequest(u, owner, dataType, purpose, expiresAt, dbOk) ==
  LET chk == CreateCheck(owner, dataType, purpose, expiresAt)
      complete == ~(owner = NoValue \/ dataType = NoValue \/ purpose = NoValue
                    \/ expiresAt = NoDate)
      log(res, st) == [result |-> res, expiresAt |-> expiresAt,
                       at |-> now, complete |-> complete, status |-> st]
  IN
  \/ /\ chk # "proceed"
     /\ lastCreate' = log(chk, "none")
     /\ UNCHANGED <<request, notifications>>
  \/ /\ chk = "proceed"
     /\ ~dbOk
     /\ lastCreate' = log("Internal", "none")
     /\ UNCHANGED <<request, notifications>>
  \/ /\ chk = "proceed"
     /\ dbOk
     /\ LET st == preSave(DefaultStatus, expiresAt, now)
        IN /\ request' = [status |-> st, owner |-> owner, requester |-> u,
                          expiresAt |-> expiresAt, respondedAt |-> NoDate,
                          responseReason |-> FALSE, blockchainData |-> FALSE]
           /\ \E out \in emitToUser :
                /\ notifications' = IF out = "delivered"
                     THEN notifications \cup {[call |-> 0, event |-> "consent_request"]}
                     ELSE notifications
                /\ lastCreate' = log(IF out = "threw" THEN "Internal" ELSE "ok", st)

\* the document followed is the one the first successful create stores
Create ==
  /\ request.status = "none"
  /\ \E owner \in {"0xowner", "0xghost", NoValue},
        dataType \in {"medical", "bogus", NoValue}, purpose \in {"research", NoValue},
        expiresAt \in Times \cup {NoDate}, dbOk \in BOOLEAN :
       CreateRequest("0xreq", owner, dataType, purpose, expiresAt, dbOk)
  /\ UNCHANGED <<now, calls, cleanupPc, auditLog, mfa, serviceVars>>

\* handler invocations take the call slots in order
NextSlot(c) == IF c = 1 THEN TRUE ELSE calls[c - 1].pc # "idle"

\* --------------------------------- POST /:requestId/approve|deny|revoke
\* findById and the synchronous checks that follow it; on success the method
\* (approve/deny/revoke) has assigned status, respondedAt and responseReason
\* to the in-memory document and its save() is pending.
Begin(c, op, actor) ==
  /\ calls[c].pc = "idle"
  /\ NextSlot(c)
  /\ LET chk == RouteCheck(request, actor, op)
         base == [IdleCall EXCEPT !.op = op, !.actor = actor]
     IN calls' = [calls EXCEPT ![c] =
          IF chk = "proceed"
            THEN [base EXCEPT !.pc = "save", !.stamp = now,
                              !.overdue = isExpired(request.expiresAt, now)]
            ELSE [base EXCEPT !.pc = "done", !.result = chk]]
  /\ UNCHANGED <<request, now, lastCreate, cleanupPc, notifications, auditLog, mfa, serviceVars>>

\* the code after the last await of a route: emitToUser, then res.json with
\* the in-memory document
Respond(c, out) ==
  /\ notifications' = IF out = "delivered"
       THEN notifications \cup {[call |-> c, event |-> EventOf(calls[c].op)]}
       ELSE notifications
  /\ calls' = [calls EXCEPT ![c].pc = "done", ![c].stamp = NoDate,
                            ![c].wrote = TRUE,
                            ![c].chained = (calls[c].op = "approve"),
                            ![c].overdue = (out # "threw" /\ calls[c].overdue),
                            ![c].result = IF out = "threw" THEN "Internal" ELSE "ok",
                            ![c].seen = IF out = "threw" THEN "none"
                                        ELSE TargetStatus(calls[c].op)]

\* document.save() of approve/deny/revoke: mongoose writes the modified paths
\* (status, respondedAt, responseReason) by _id, with no check of the stored
\* status or version.
Save(c, dbOk) ==
  /\ calls[c].pc = "save"
  /\ LET op == calls[c].op
     IN
     \/ /\ ~dbOk
        /\ calls' = [calls EXCEPT ![c].pc = "done", ![c].stamp = NoDate,
                                  ![c].overdue = FALSE, ![c].result = "Internal"]
        /\ UNCHANGED <<request, notifications>>
     \/ /\ dbOk
        /\ request' = [request EXCEPT
             !.status = preSave(TargetStatus(op), request.expiresAt, now),
             !.respondedAt = calls[c].stamp,
             !.responseReason = TRUE]
        /\ IF op = "approve"
             THEN /\ calls' = [calls EXCEPT ![c].pc = "chain", ![c].stamp = NoDate,
                                            ![c].wrote = TRUE]
                  /\ UNCHANGED notifications
             ELSE \E out \in emitToUser : Respond(c, out)
  /\ UNCHANGED <<now, lastCreate, cleanupPc, auditLog, mfa, serviceVars>>

\* approve only: setBlockchainData, a second save() that writes blockchainData
SetBlockchainData(c, dbOk) ==
  /\ calls[c].pc = "chain"
  /\ \/ /\ ~dbOk
        /\ calls' = [calls EXCEPT ![c].pc = "done", ![c].overdue = FALSE,
                                  ![c].result = "Internal"]
        /\ UNCHANGED <<request, notifications>>
     \/ /\ dbOk
        /\ request' = [request EXCEPT !.blockchainData = TRUE]
        /\ \E out \in emitToUser : Respond(c, out)
  /\ UNCHANGED <<now, lastCreate, cleanupPc, auditLog, mfa, serviceVars>>

\* ------------------------------------------------------ GET /:requestId
\* findById, the involvement check, and the response with the document as
\* stored
Get(c, actor) ==
  /\ calls[c].pc = "idle"
  /\ NextSlot(c)
  /\ LET res == IF request.status = "none" THEN "NotFound"
                ELSE IF request.owner # actor /\ request.requester # actor
                  THEN "Forbidden"
                ELSE "ok"
     IN calls' = [calls EXCEPT ![c] =
          [IdleCall EXCEPT !.op = "get", !.actor = actor, !.pc = "done",
                           !.result = res,
                           !.seen = IF res = "ok" THEN request.status ELSE "none",
                           !.overdue = IF res = "ok"
                                       THEN isExpired(request.expiresAt, now)
                                       ELSE FALSE]]
  /\ UNCHANGED <<request, now, lastCreate, cleanupPc, notifications, auditLog, mfa, serviceVars>>

\* ------------------------------------ setInterval: cleanup of expired requests
\* await findExpiredRequests(): the document is loaded if the query matches it
CleanupFind ==
  /\ cleanupPc = "idle"
  /\ findExpiredRequests(request, now)
  /\ cleanupPc' = "loaded"
  /\ UNCHANGED <<request, now, calls, lastCreate, notifications, auditLog, mfa, serviceVars>>

\* the loop body: request.status = 'expired'; await request.save(); then the
\* requester is told if connected (here `io` is in scope). A failed save
\* throws out of the loop.
CleanupSave(dbOk, connected) ==
  /\ cleanupPc = "loaded"
  /\ cleanupPc' = "idle"
  /\ \/ /\ ~dbOk
        /\ UNCHANGED <<request, notifications>>
     \/ /\ dbOk
        /\ request' = [request EXCEPT
             !.status = preSave("expired", request.expiresAt, now)]
        /\ notifications' = IF connected
             THEN notifications \cup {[call |-> 0, event |-> "consent_request_expired"]}
             ELSE notifications
  /\ UNCHANGED <<now, calls, lastCreate, auditLog, mfa, serviceVars>>

Next ==
  \/ Tick
  \/ Create
  \/ \E c \in CallIds, op \in {"approve", "deny", "revoke"}, actor \in Users :
       Begin(c, op, actor)
  \/ \E c \in CallIds, dbOk \in BOOLEAN : Save(c, dbOk)
  \/ \E c \in CallIds, dbOk \in BOOLEAN : SetBlockchainData(c, dbOk)
  \/ \E c \in CallIds, actor \in Users : Get(c, actor)
  \/ CleanupFind
  \/ \E dbOk \in BOOLEAN, connected \in BOOLEAN : CleanupSave(dbOk, connected)

Spec == Init /\ [][Next]_vars

\* The cleanup beside the routes that answer a pending request (GET writes
\* nothing and revoke needs an approved request; both are left to Spec). The interval fires every minute for as long as the
\* process runs, and a save that is tried again at every firing does not fail
\* every time.
NextCleanup ==
  \/ Tick
  \/ Create
  \/ \E c \in CallIds, op \in {"approve", "deny"}, actor \in Users :
       Begin(c, op, actor)
  \/ \E c \in CallIds, dbOk \in BOOLEAN : Save(c, dbOk)
  \/ \E c \in CallIds, dbOk \in BOOLEAN : SetBlockchainData(c, dbOk)
  \/ CleanupFind
  \/ \E dbOk \in BOOLEAN, connected \in BOOLEAN : CleanupSave(dbOk, connected)

SpecCleanupFair ==
  /\ Init
  /\ [][NextCleanup]_vars
  /\ WF_vars(CleanupFind)
  /\ SF_vars(\E connected \in BOOLEAN : CleanupSave(TRUE, connected))

\* ------------------------------- SecurityMiddleware.multiFactorSecurity
GateStart(body) ==
  /\ mfa.pc = "idle"
  /\ mfa' = [mfa EXCEPT !.pc = "ens", !.body = body]
  /\ UNCHANGED <<ledgerVars, auditLog, serviceVars>>

\* a gate was evaluated: it is recorded, and a failure answers `error`
Evaluated(gate, pass, error, nextPc) ==
  [mfa EXCEPT !.ran = Append(@, [gate |-> gate, pass |-> pass]),
              !.pc = IF pass THEN nextPc ELSE "done",
              !.response = IF pass THEN @ ELSE error]

\* Step 1: await ensService.verifyENSOwnership
GateENS(rpcUp) ==
  /\ mfa.pc = "ens"
  /\ mfa' = Evaluated("ens",
                      verifyENSOwnership(mfa.body.ensName, mfa.body.userAddress, rpcUp),
                      "ENSFailed", "zkp")
  /\ UNCHANGED <<ledgerVars, auditLog, serviceVars>>

\* Step 2: if (zkpProof) await zkpService.verifyProof
GateZKP ==
  /\ mfa.pc = "zkp"
  /\ \/ /\ mfa.body.zkpProof.supplied
        /\ mfa' = Evaluated("zkp", verifyProof(mfa.body.zkpProof, now), "ZKPFailed", "ssi")
     \/ /\ ~mfa.body.zkpProof.supplied
        /\ mfa' = [mfa EXCEPT !.pc = "ssi"]
  /\ UNCHANGED <<ledgerVars, auditLog, serviceVars>>

\* Step 3: if (ssiPresentation && challenge) await ssiService.verifyPresentation
GateSSI(didUp) ==
  /\ mfa.pc = "ssi"
  /\ \/ /\ mfa.body.ssiPresentation.supplied /\ mfa.body.challenge # NoValue
        /\ mfa' = Evaluated("ssi",
                            verifyPresentation(mfa.body.ssiPresentation,
                                               mfa.body.challenge, now, didUp),
                            "SSIFailed", "ipfs")
     \/ /\ ~(mfa.body.ssiPresentation.supplied /\ mfa.body.challenge # NoValue)
        /\ mfa' = [mfa EXCEPT !.pc = "ipfs"]
  /\ UNCHANGED <<ledgerVars, auditLog, serviceVars>>

\* req.securityVerification, as the middleware fills it in before next()
securityVerification(body) ==
  [set |-> TRUE,
   ensVerified |-> TRUE,
   zkpVerified |-> body.zkpProof.supplied,
   ssiVerified |-> body.ssiPresentation.supplied,
   dataAccessVerified |-> (body.dataCID # NoValue)]

\* Step 4: if (dataCID) await ipfsService.dataExists; then the result record
GateIPFS(ipfsUp) ==
  /\ mfa.pc = "ipfs"
  /\ \/ /\ mfa.body.dataCID # NoValue
        /\ LET pass == dataExists(mfa.body.dataCID, ipfsUp)
               m == Evaluated("ipfs", pass, "NotFound", "audit")
           IN mfa' = IF pass
                       THEN [m EXCEPT !.verification = securityVerification(mfa.body)]
                       ELSE m
     \/ /\ mfa.body.dataCID = NoValue
        /\ mfa' = [mfa EXCEPT !.pc = "audit",
                              !.verification = securityVerification(mfa.body)]
  /\ UNCHANGED <<ledgerVars, auditLog, serviceVars>>

\* GateAudit with a failed storeAuditLog answered as an error
GateAuditAborts(storeOk) ==
  /\ mfa.pc = "audit"
  /\ auditLog' = IF storeOk
       THEN auditLog \cup {[call |-> 0, action |-> "/security/multi-factor",
                            userAddress |-> mfa.body.userAddress,
                            securityVerification |-> mfa.verification]}
       ELSE auditLog
  /\ mfa' = [mfa EXCEPT !.pc = "done",
                        !.response = IF storeOk THEN "ok" ELSE "Internal"]
  /\ UNCHANGED <<ledgerVars, serviceVars>>

\* auditSecurityEvent, reached through next() only, and then the route's
\* handler: the audit record is stored if storeAuditLog succeeds; a failure is
\* caught and the handler answers all the same
GateAudit(storeOk) ==
  /\ mfa.pc = "audit"
  /\ auditLog' = IF storeOk
       THEN auditLog \cup {[call |-> 0, action |-> "/security/multi-factor",
                            userAddress |-> mfa.body.userAddress,
                            securityVerification |-> mfa.verification]}
       ELSE auditLog
  /\ mfa' = [mfa EXCEPT !.pc = "done", !.response = "ok"]
  /\ UNCHANGED <<ledgerVars, serviceVars>>

\* the gate runs within one reading of the clock, at or after the proof window
GateTimes == {ProofWindow, ProofWindow + 1}

InitGate ==
  /\ request = NoDoc
  /\ now \in GateTimes
  /\ calls = [c \in CallIds |-> IdleCall]
  /\ lastCreate = NoCreate
  /\ cleanupPc = "idle"
  /\ notifications = {}
  /\ auditLog = {}
  /\ mfa = IdleRun
  /\ zkp = NotFollowed
  /\ ssi = NotFollowed
  /\ userDoc = NotFollowed
  /\ ipfs = NotFollowed
  /\ monitor = NotFollowed
  /\ scoring = NotFollowed
  /\ merkle = NotFollowed
  /\ access = NotFollowed
  /\ limiter = NotFollowed

NextGate ==
  \/ \E body \in Bodies : GateStart(body)
  \/ \E rpcUp \in BOOLEAN : GateENS(rpcUp)
  \/ GateZKP
  \/ \E didUp \in BOOLEAN : GateSSI(didUp)
  \/ \E ipfsUp \in BOOLEAN : GateIPFS(ipfsUp)
  \/ \E storeOk \in BOOLEAN : GateAudit(storeOk)

SpecGate == InitGate /\ [][NextGate]_vars

\* ---------------------------------------------------------- zkp-service.js
\* verifyDataAccessProof: the freshness window (1 h, in hours)
DataAccessWindow == 1
\* crypto.randomBytes(16).toString('hex'): two hex digits a byte
NonceBytes == 16

\* the string that generateDataAccessProof and verifyDataAccessProof digest
AccessString(userId, dataType, accessLevel) ==
  userId \o "-" \o dataType \o "-" \o accessLevel

\* generateAgeProof at time t
generateAgeProof(actualAge, minimumAge, t) ==
  [supplied |-> TRUE, made |-> "age", isValid |-> (actualAge >= minimumAge),
   accessHash |-> NoHash, timestamp |-> t, nonceLen |-> 2 * NonceBytes]

\* generateDataAccessProof at time t
generateDataAccessProof(userId, dataType, accessLevel, t) ==
  [supplied |-> TRUE, made |-> "access", isValid |-> FALSE,
   accessHash |-> sha256(AccessString(userId, dataType, accessLevel)),
   timestamp |-> t, nonceLen |-> 2 * NonceBytes]

\* what a verification returns; `raised` tells whether it threw to its caller
\* (both verifications catch every error and return)
Answer(ok) == [isValid |-> ok, accessGranted |-> ok, raised |-> FALSE]

\* verifyProof as a whole: reading nonce.length of a proof without a nonce
\* throws a TypeError, which the catch answers as invalid; && evaluates
\* left to right and stops at the first false operand
verifyProofResult(proof, t) ==
  IF proof.isValid /\ proof.timestamp > t - ProofWindow /\ proof.nonceLen = NoNonce
    THEN Answer(FALSE)
    ELSE Answer(verifyProof(proof, t))

\* verifyDataAccessProof without the comparison of the digests
verifyDataAccessProofAnyHash(proof, userId, dataType, accessLevel, t) ==
  IF ~(proof.timestamp > t - DataAccessWindow) THEN Answer(FALSE)
  ELSE IF proof.nonceLen = NoNonce THEN Answer(FALSE)
  ELSE Answer(proof.nonceLen = NonceLength)

\* verifyDataAccessProof: the digest, the 1 h window, the nonce length; the
\* TypeError of a proof without a nonce is caught and answered as not granted
verifyDataAccessProof(proof, userId, dataType, accessLevel, t) ==
  LET expectedHash == sha256(AccessString(userId, dataType, accessLevel))
  IN IF proof.accessHash # expectedHash THEN Answer(FALSE)
     ELSE IF ~(proof.timestamp > t - DataAccessWindow) THEN Answer(FALSE)
     ELSE IF proof.nonceLen = NoNonce THEN Answer(FALSE)
     ELSE Answer(proof.nonceLen = NonceLength)

\* ------------------------------------------------------ proof service runs
\* the clock of the proof service runs from 0 to past the longer window
ProofHorizon == ProofWindow + 1
\* the readings of the clock that are followed: around both windows
ProofTimes == {0, DataAccessWindow, DataAccessWindow + 1,
               ProofWindow - 1, ProofWindow, ProofHorizon}

Ages == {17, 18}
MinimumAges == {18}
\* verificationData: an access, the same with another user, type or level,
\* and two accesses whose user and type hold the separator
OwnerReads == [userId |-> "0xowner", dataType |-> "medical", accessLevel |-> "read"]
AccessData == {OwnerReads,
               [OwnerReads EXCEPT !.userId = "0xreq"],
               [OwnerReads EXCEPT !.dataType = "financial"],
               [OwnerReads EXCEPT !.accessLevel = "write"],
               [OwnerReads EXCEPT !.userId = "a-b", !.dataType = "c"],
               [OwnerReads EXCEPT !.userId = "a", !.dataType = "b-c"]}

\* proof objects a client sends of its own making
ClientProofs ==
  {[supplied |-> TRUE, made |-> "age", isValid |-> TRUE, accessHash |-> NoHash,
    timestamp |-> 0, nonceLen |-> n] : n \in {NonceLength, NonceBytes, NoNonce}}
  \cup
  {[supplied |-> TRUE, made |-> "access", isValid |-> FALSE,
    accessHash |-> sha256(AccessString("0xowner", "medical", "read")),
    timestamp |-> 0, nonceLen |-> n] : n \in {NonceLength, NonceBytes, NoNonce}}
  \cup
  {[supplied |-> TRUE, made |-> "access", isValid |-> FALSE, accessHash |-> NoHash,
    timestamp |-> 0, nonceLen |-> NonceLength]}

otherThanZkp == <<request, calls, lastCreate, cleanupPc, notifications, auditLog, mfa,
                  ssi, userDoc, ipfs, moreServiceVars>>

\* POST /zkp/generate-age-proof
GenerateAgeProof(actualAge, minimumAge) ==
  /\ zkp.origin = "none"
  /\ zkp' = [zkp EXCEPT !.proof = generateAgeProof(actualAge, minimumAge, now),
                        !.origin = "generated",
                        !.holds = (actualAge >= minimumAge)]
  /\ UNCHANGED <<now, otherThanZkp>>

\* verifyDataAccess, line 240: the middleware generates a data-access proof
GenerateDataAccessProof(data) ==
  /\ zkp.origin = "none"
  /\ zkp' = [zkp EXCEPT !.proof = generateDataAccessProof(data.userId, data.dataType,
                                                          data.accessLevel, now),
                        !.origin = "generated",
                        !.madeFor = data,
                        !.holds = TRUE]
  /\ UNCHANGED <<now, otherThanZkp>>

\* the client builds the proof object itself
ClientProof(proof) ==
  /\ zkp.origin = "none"
  /\ zkp' = [zkp EXCEPT !.proof = proof, !.origin = "client"]
  /\ UNCHANGED <<now, otherThanZkp>>

ProofTick(t) ==
  /\ t > now
  /\ now' = t
  /\ UNCHANGED <<zkp, otherThanZkp>>

\* SecurityMiddleware.verifyZKPProof with the proof in hand: the switch on
\* proofType, the service call, 403 for an invalid proof, next() otherwise
VerifyZKPProof(proofType, data) ==
  /\ zkp.origin # "none"
  /\ zkp.uses < MaxUses
  /\ LET run == [NoZkRun EXCEPT !.proofType = proofType, !.data = data, !.at = now]
         res == IF proofType = "dataAccess"
                  THEN verifyDataAccessProof(zkp.proof, data.userId, data.dataType,
                                             data.accessLevel, now)
                  ELSE verifyProofResult(zkp.proof, now)
     IN IF proofType \notin {"age", "location", "credential", "dataAccess"}
          THEN zkp' = [zkp EXCEPT !.last = [run EXCEPT !.response = "InvalidType"]]
          ELSE zkp' = [zkp EXCEPT
                 !.last = [run EXCEPT !.isValid = res.isValid,
                                      !.accessGranted = res.accessGranted,
                                      !.raised = res.raised,
                                      !.response = IF res.raised THEN "Internal"
                                                   ELSE IF res.isValid THEN "ok"
                                                   ELSE "ZKPFailed"],
                 !.uses = IF res.isValid THEN @ + 1 ELSE @]
  /\ UNCHANGED <<now, otherThanZkp>>

InitProof ==
  /\ InitLedger
  /\ mfa = NotFollowed
  /\ zkp = IdleZkp
  /\ ssi = NotFollowed
  /\ userDoc = NotFollowed
  /\ ipfs = NotFollowed
  /\ monitor = NotFollowed
  /\ scoring = NotFollowed
  /\ merkle = NotFollowed
  /\ access = NotFollowed
  /\ limiter = NotFollowed

NextProof ==
  \/ \E actualAge \in Ages, minimumAge \in MinimumAges :
       GenerateAgeProof(actualAge, minimumAge)
  \/ \E data \in AccessData : GenerateDataAccessProof(data)
  \/ \E proof \in ClientProofs : ClientProof(proof)
  \/ \E t \in ProofTimes : ProofTick(t)
  \/ \E proofType \in {"age", "dataAccess", "bogus"}, data \in AccessData :
       VerifyZKPProof(proofType, data)

SpecProof == InitProof /\ [][NextProof]_vars

\* ------------------------------------------------- credential service runs
\* credentials, as signed by createVerifiableCredential or tampered with
CredA == [id |-> "urn:uuid:a", signed |-> TRUE, exp |-> FarExp,
          iss |-> "did:issuer", sub |-> "did:holder"]
CredB == [CredA EXCEPT !.id = "urn:uuid:b"]
BadCreds == {[CredB EXCEPT !.signed = FALSE], [CredB EXCEPT !.exp = 1],
             [CredB EXCEPT !.iss = "did:ghost"], [CredB EXCEPT !.sub = "did:ghost"]}
CredentialIds == {"urn:uuid:a", "urn:uuid:b"}

\* presentations wrapping them: none, one, two, or a good and a bad credential
SsiPresentations ==
  [supplied : {TRUE}, signed : BOOLEAN, exp : {1, FarExp}, nonce : {"n1"},
   iss : {"did:holder", "did:ghost"},
   creds : {{}, {CredA}, {CredA, CredB}} \cup {{CredA, c} : c \in BadCreds}]

otherThanSsi == <<request, calls, lastCreate, cleanupPc, notifications, auditLog, mfa,
                  zkp, userDoc, ipfs, moreServiceVars>>

\* SSIService.revokeCredential: a revocation record is built and returned;
\* nothing is stored and no registry is told
RevokeCredential(credentialId, issuerDID) ==
  /\ ssi' = [ssi EXCEPT !.revocations =
               @ \cup {[credentialId |-> credentialId, issuer |-> issuerDID]}]
  /\ UNCHANGED <<now, otherThanSsi>>

\* the credentials for which a revocation record exists
Revoked == {r.credentialId : r \in ssi.revocations}

\* SecurityMiddleware.verifySSICredentials: 400 without a presentation or a
\* challenge, 403 for an invalid presentation, next() otherwise
VerifySSICredentials(p, challenge, didUp) ==
  /\ LET run == [NoSsiRun EXCEPT !.presentation = p, !.challenge = challenge,
                                 !.at = now, !.didUp = didUp, !.revoked = Revoked]
         ok == verifyPresentation(p, challenge, now, didUp)
     IN ssi' = [ssi EXCEPT !.last =
          IF challenge = NoValue
            THEN [run EXCEPT !.response = "BadRequest"]
            ELSE [run EXCEPT !.ran = TRUE, !.isValid = ok,
                             !.response = IF ok THEN "ok" ELSE "SSIFailed"]]
  /\ UNCHANGED <<now, otherThanSsi>>

InitSSI ==
  /\ InitLedger
  /\ mfa = NotFollowed
  /\ zkp = NotFollowed
  /\ ssi = IdleSsi
  /\ userDoc = NotFollowed
  /\ ipfs = NotFollowed
  /\ monitor = NotFollowed
  /\ scoring = NotFollowed
  /\ merkle = NotFollowed
  /\ access = NotFollowed
  /\ limiter = NotFollowed

NextSSI ==
  \/ Tick
  \/ \E credentialId \in CredentialIds : RevokeCredential(credentialId, "did:issuer")
  \/ \E p \in SsiPresentations, challenge \in {NoValue, "n1", "n2"}, didUp \in BOOLEAN :
       VerifySSICredentials(p, challenge, didUp)

SpecSSI == InitSSI /\ [][NextSSI]_vars

\* ------------------------------------------- User.js methods, auth routes
\* the first credential with the hash (Array.prototype.find), 0 if none
FirstMatch(creds, credentialHash) ==
  IF \E i \in 1..Len(creds) : creds[i].credentialHash = credentialHash
    THEN CHOOSE i \in 1..Len(creds) :
           /\ creds[i].credentialHash = credentialHash
           /\ \A j \in 1..(i - 1) : creds[j].credentialHash # credentialHash
    ELSE 0

\* addCredential that replaces a stored credential of the same hash
addCredentialReplacing(creds, credential) ==
  LET i == FirstMatch(creds, credential.credentialHash)
      entry == [credentialHash |-> credential.credentialHash,
                isRevoked |-> credential.isRevoked]
  IN IF i = 0 THEN Append(creds, entry) ELSE [creds EXCEPT ![i] = entry]

\* methods.addCredential: this.ssiCredentials.push(credential)
addCredential(creds, credential) ==
  Append(creds, [credentialHash |-> credential.credentialHash,
                 isRevoked |-> credential.isRevoked])

\* methods.revokeCredential: the first credential with the hash is revoked
revokeCredential(creds, credentialHash) ==
  [creds EXCEPT ![FirstMatch(creds, credentialHash)].isRevoked = TRUE]

CredentialHashes == {"h1", "h2"}
BodyCredentials == [credentialHash : CredentialHashes, isRevoked : BOOLEAN,
                    valid : BOOLEAN]

otherThanUser == <<ledgerVars, auditLog, mfa, zkp, ssi, ipfs, moreServiceVars>>

UserNextSlot(c) == IF c = 1 THEN TRUE ELSE userDoc.calls[c - 1].pc # "idle"

\* PUT /profile, POST /credentials, DELETE /credentials/:credentialHash up to
\* `await User.findByAddress`; revokeCredential throws at once when the loaded
\* copy has no credential with the hash
UserFind(c, op, arg) ==
  /\ userDoc.calls[c].pc = "idle"
  /\ UserNextSlot(c)
  /\ LET base == [IdleUserCall EXCEPT !.op = op, !.arg = arg, !.v = userDoc.v]
         missing == op = "revoke"
                    /\ FirstMatch(userDoc.ssiCredentials, arg.credentialHash) = 0
     IN userDoc' = [userDoc EXCEPT !.calls[c] =
          IF missing THEN [base EXCEPT !.pc = "done", !.result = "Internal"]
                     ELSE [base EXCEPT !.pc = "loaded"]]
  /\ UNCHANGED otherThanUser

\* this.save(): mongoose sends the changes of the copy. A push is sent as
\* $push and increments __v; the isRevoked of an array element is sent as
\* $set on its position, guarded by the __v of the copy (VersionError when the
\* array has changed since); the profile and preferences are sent as $set.
UserSave(c, dbOk) ==
  /\ userDoc.calls[c].pc = "loaded"
  /\ LET call == userDoc.calls[c]
         answer(res) == [call EXCEPT !.pc = "done", !.result = res]
     IN IF ~dbOk
          THEN userDoc' = [userDoc EXCEPT !.calls[c] = answer("Internal")]
        ELSE IF call.op = "profile"
          THEN userDoc' = [userDoc EXCEPT !.profile = @ + 1, !.calls[c] = answer("ok")]
        ELSE IF call.op = "add"
          THEN IF call.arg.valid
                 THEN userDoc' = [userDoc EXCEPT
                        !.ssiCredentials = addCredential(@, call.arg),
                        !.v = @ + 1,
                        !.calls[c] = answer("ok")]
                 ELSE userDoc' = [userDoc EXCEPT !.calls[c] = answer("Internal")]
        ELSE IF call.v = userDoc.v
          THEN userDoc' = [userDoc EXCEPT
                 !.ssiCredentials = revokeCredential(@, call.arg.credentialHash),
                 !.calls[c] = answer("ok")]
          ELSE userDoc' = [userDoc EXCEPT !.calls[c] = answer("Internal")]
  /\ UNCHANGED otherThanUser

\* the user has registered and may have added a credential before
InitUser ==
  /\ InitLedger
  /\ mfa = NotFollowed
  /\ zkp = NotFollowed
  /\ ssi = NotFollowed
  /\ ipfs = NotFollowed
  /\ monitor = NotFollowed
  /\ scoring = NotFollowed
  /\ merkle = NotFollowed
  /\ access = NotFollowed
  /\ limiter = NotFollowed
  /\ \E first \in {<<>>, <<[credentialHash |-> "h1", isRevoked |-> FALSE]>>} :
       userDoc = [IdleUserDoc EXCEPT !.ssiCredentials = first, !.v = Len(first)]

NextUser ==
  \/ \E c \in CallIds : UserFind(c, "profile", NoCredential)
  \/ \E c \in CallIds, credential \in BodyCredentials : UserFind(c, "add", credential)
  \/ \E c \in CallIds, credentialHash \in CredentialHashes :
       UserFind(c, "revoke", [NoCredential EXCEPT !.credentialHash = credentialHash])
  \/ \E c \in CallIds, dbOk \in BOOLEAN : UserSave(c, dbOk)

SpecUser == InitUser /\ [][NextUser]_vars

\* ----------------------------------- ipfs-service: encryption and storage
\* JSON.stringify / JSON.parse of a JSON value
JSONstringify(value) == <<"json", value>>
JSONparse(text) == text[2]

\* createCipher / createDecipher derive the key and the IV from the password
\* (EVP_BytesToKey); the random iv of encryptData is not used by the cipher
EVP_BytesToKey(password) == <<"evp", password>>

\* aes-256-gcm: the ciphertext of a text under a derived key, and the tag that
\* authenticates a ciphertext under a derived key
Ciphertext(derived, text) == [key |-> derived, text |-> text]
AuthTag(derived, ciphertext) == <<"tag", derived, ciphertext>>

NoEncrypted == [encrypted |-> Ciphertext(NoValue, <<>>), iv |-> NoValue,
                authTag |-> <<>>, algorithm |-> NoValue]

\* encryptData: `iv` is the value of crypto.randomBytes(16)
encryptData(data, encryptionKey, iv) ==
  LET derived == EVP_BytesToKey(encryptionKey)
      encrypted == Ciphertext(derived, JSONstringify(data))
  IN [encrypted |-> encrypted, iv |-> iv, authTag |-> AuthTag(derived, encrypted),
      algorithm |-> "aes-256-gcm"]

\* what decryptData gives its caller: the parsed plaintext, or an error thrown
Decrypted(data) == [ok |-> TRUE, data |-> data]
DecryptionFailed == [ok |-> FALSE, data |-> NoPayload]

\* decryptData that does not authenticate (no setAuthTag / final)
decryptDataUnchecked(encryptedData, encryptionKey) ==
  IF encryptedData.algorithm # "aes-256-gcm" THEN DecryptionFailed
  ELSE Decrypted(JSONparse(encryptedData.encrypted.text))

\* decryptData: createDecipher throws for an unknown algorithm; final() throws
\* when the tag set by setAuthTag does not authenticate the ciphertext under
\* the key derived from encryptionKey
decryptData(encryptedData, encryptionKey) ==
  LET derived == EVP_BytesToKey(encryptionKey)
  IN IF encryptedData.algorithm # "aes-256-gcm" THEN DecryptionFailed
     ELSE IF encryptedData.authTag # AuthTag(derived, encryptedData.encrypted)
       THEN DecryptionFailed
     ELSE Decrypted(JSONparse(encryptedData.encrypted.text))

\* the two kinds of block storeEncryptedData adds
DataBlock(encryptedData) ==
  [kind |-> "data", encryptedData |-> encryptedData, metadata |-> NoMetadata,
   iv |-> NoValue, authTag |-> <<>>]
MetadataBlock(metadata, encryptedData) ==
  [kind |-> "metadata", encryptedData |-> NoEncrypted, metadata |-> metadata,
   iv |-> encryptedData.iv, authTag |-> encryptedData.authTag]

\* ipfs.add answers the content's address
CID(block) == <<"cid", block>>

Payloads == {[category |-> "lab", value |-> 1], [category |-> "scan", value |-> 2]}
EncryptionKeys == {"k1", "k2"}
Metadatas == {[type |-> "consent", userAddress |-> "0xowner"]}
IVs == {"iv1", "iv2"}

\* process.env.MEDICAL_SECRET
MEDICAL_SECRET == "medical-secret"

\* digest('hex') of a hash: a string
digestHex(hash) == hash[1] \o ":" \o hash[2]

\* the key storeMedicalData derives for an owner and a data category
medicalEncryptionKey(userAddress, dataType) ==
  digestHex(sha256(userAddress \o "-" \o dataType \o "-" \o MEDICAL_SECRET))

UserAddresses == {"0xowner"}
MedicalDataTypes == {"medical"}
DerivedKeys ==
  {medicalEncryptionKey(u, dt) : u \in UserAddresses, dt \in MedicalDataTypes}

otherThanIpfs == <<ledgerVars, auditLog, mfa, zkp, ssi, userDoc, moreServiceVars>>

\* storeEncryptedData: encrypt, add the encrypted data, add the metadata, and
\* return the two addresses with the encryptionKey; a failed add throws, after
\* the first block may have been added. userAddress and dataType are what the
\* caller derived the key from (NoValue when the key was given)
storeEncryptedData(data, encryptionKey, metadata, iv, added, userAddress, dataType) ==
  /\ ipfs.stores < MaxStores
  /\ LET encryptedData == encryptData(data, encryptionKey, iv)
         dataBlock == DataBlock(encryptedData)
         metadataBlock == MetadataBlock(metadata, encryptedData)
         new == IF added = 0 THEN {}
                ELSE IF added = 1 THEN {dataBlock}
                ELSE {dataBlock, metadataBlock}
         call == [NoStore EXCEPT !.data = data, !.metadata = metadata,
                                 !.encryptionKey = encryptionKey,
                                 !.userAddress = userAddress, !.dataType = dataType]
     IN ipfs' = [ipfs EXCEPT
          !.blocks = @ \cup new,
          !.stores = @ + 1,
          !.stored = IF added = 2
                       THEN [call EXCEPT !.ok = TRUE, !.dataCID = CID(dataBlock),
                                         !.metadataCID = CID(metadataBlock),
                                         !.returnedKey = encryptionKey]
                       ELSE call]
  /\ UNCHANGED otherThanIpfs

\* a store with a key the caller supplies
StoreEncryptedData(data, encryptionKey, metadata, iv, added) ==
  storeEncryptedData(data, encryptionKey, metadata, iv, added, NoValue, NoValue)

\* storeMedicalData: derive the key, build the metadata, storeEncryptedData
StoreMedicalData(medicalData, userAddress, dataType, iv, added) ==
  storeEncryptedData(medicalData, medicalEncryptionKey(userAddress, dataType),
                     [type |-> "medical", userAddress |-> userAddress],
                     iv, added, userAddress, dataType)

\* retrieveEncryptedData: cat both addresses and parse them, decrypt the data
\* with the key; anything that fails throws
RetrieveEncryptedData(dataCID, metadataCID, encryptionKey, ipfsUp) ==
  /\ LET call == [NoRetrieve EXCEPT !.dataCID = dataCID, !.metadataCID = metadataCID,
                                    !.encryptionKey = encryptionKey, !.status = "failed"]
         found == ipfsUp /\ dataCID[2] \in ipfs.blocks /\ metadataCID[2] \in ipfs.blocks
         decrypted == decryptData(dataCID[2].encryptedData, encryptionKey)
     IN ipfs' = [ipfs EXCEPT !.got =
          IF ~found THEN call
          ELSE IF ~decrypted.ok THEN [call EXCEPT !.read = TRUE]
          ELSE [call EXCEPT !.read = TRUE, !.status = "ok", !.data = decrypted.data,
                            !.metadata = metadataCID[2].metadata]]
  /\ UNCHANGED otherThanIpfs

InitIpfs ==
  /\ InitLedger
  /\ mfa = NotFollowed
  /\ zkp = NotFollowed
  /\ ssi = NotFollowed
  /\ userDoc = NotFollowed
  /\ ipfs = IdleIpfs
  /\ monitor = NotFollowed
  /\ scoring = NotFollowed
  /\ merkle = NotFollowed
  /\ access = NotFollowed
  /\ limiter = NotFollowed

\* the addresses asked for are addresses the node has handed out
NextIpfs ==
  \/ \E data \in Payloads, encryptionKey \in EncryptionKeys, metadata \in Metadatas,
        iv \in IVs, added \in 0..2 :
       StoreEncryptedData(data, encryptionKey, metadata, iv, added)
  \/ \E medicalData \in Payloads, userAddress \in UserAddresses,
        dataType \in MedicalDataTypes, iv \in IVs, added \in 0..2 :
       StoreMedicalData(medicalData, userAddress, dataType, iv, added)
  \/ \E dataBlock \in ipfs.blocks, metadataBlock \in ipfs.blocks,
        encryptionKey \in EncryptionKeys \cup DerivedKeys, ipfsUp \in BOOLEAN :
       RetrieveEncryptedData(CID(dataBlock), CID(metadataBlock), encryptionKey, ipfsUp)

SpecIpfs == InitIpfs /\ [][NextIpfs]_vars

\* ------------------------------------------- aiCoPilot: the anomaly score
\* the thresholds set by the constructor
alertThresholds ==
  [anomalyScore |-> 75, unusualAccessFrequency |-> 5, dataVolumeThreshold |-> 1000]

\* the severity enum of an alert, in the schema's order
Severities == <<"info", "warning", "error", "critical">>
SeverityRank(severity) == CHOOSE i \in DOMAIN Severities : Severities[i] = severity

\* an entry of checkForAnomalies' list; rule stands for the message and the
\* details the rule wrote
Anomaly(type, severity, rule) == [type |-> type, severity |-> severity, rule |-> rule]

\* the switch of calculateAnomalyScore
severityWeight(severity) ==
  CASE severity = "critical" -> 30
    [] severity = "error" -> 20
    [] severity = "warning" -> 10
    [] severity = "info" -> 5
    [] OTHER -> 0

\* anomalies.forEach(...)
RECURSIVE sumWeights(_)
sumWeights(anomalies) ==
  IF anomalies = <<>> THEN 0
  ELSE severityWeight(Head(anomalies).severity) + sumWeights(Tail(anomalies))

\* calculateAnomalyScore that returns the sum as it is
calculateAnomalyScoreUncapped(anomalies, accessPattern) ==
  sumWeights(anomalies)
    + (IF accessPattern.frequency > 10 THEN 15 ELSE 0)
    + (IF accessPattern.dataVolume > 2000 THEN 20 ELSE 0)

\* calculateAnomalyScore: the weights, the two additional factors, Math.min
calculateAnomalyScore(anomalies, accessPattern) ==
  LET score == sumWeights(anomalies)
                 + (IF accessPattern.frequency > 10 THEN 15 ELSE 0)
                 + (IF accessPattern.dataVolume > 2000 THEN 20 ELSE 0)
  IN IF score < 100 THEN score ELSE 100

\* the access patterns a score is calculated with: each side of the two
\* additional factors
ScorePatterns ==
  {[frequency |-> f, dataVolume |-> v] : f \in {10, 11}, v \in {2000, 2001}}

otherThanScoring ==
  <<ledgerVars, auditLog, mfa, zkp, ssi, userDoc, ipfs, monitor, merkle, access, limiter>>

\* the list gets one more anomaly, and the score is calculated again
AddAnomaly(severity) ==
  /\ Len(scoring.anomalies) < MaxAlerts
  /\ LET anomalies == Append(scoring.anomalies,
                             Anomaly("anomaly_detected", severity, "added"))
     IN scoring' = [scoring EXCEPT
          !.anomalies = anomalies,
          !.score = calculateAnomalyScore(anomalies, scoring.accessPattern),
          !.before = scoring.score,
          !.change = "added"]
  /\ UNCHANGED otherThanScoring

\* one anomaly of the list gets a higher severity, and the score is
\* calculated again
RaiseSeverity(i, severity) ==
  /\ i \in DOMAIN scoring.anomalies
  /\ SeverityRank(severity) > SeverityRank(scoring.anomalies[i].severity)
  /\ LET anomalies == [scoring.anomalies EXCEPT ![i].severity = severity]
     IN scoring' = [scoring EXCEPT
          !.anomalies = anomalies,
          !.score = calculateAnomalyScore(anomalies, scoring.accessPattern),
          !.before = scoring.score,
          !.change = "raised"]
  /\ UNCHANGED otherThanScoring

InitScore ==
  /\ InitLedger
  /\ mfa = NotFollowed
  /\ zkp = NotFollowed
  /\ ssi = NotFollowed
  /\ userDoc = NotFollowed
  /\ ipfs = NotFollowed
  /\ monitor = NotFollowed
  /\ \E accessPattern \in ScorePatterns :
       scoring = [anomalies |-> <<>>, accessPattern |-> accessPattern,
                  score |-> calculateAnomalyScore(<<>>, accessPattern),
                  before |-> calculateAnomalyScore(<<>>, accessPattern),
                  change |-> "none"]
  /\ merkle = NotFollowed
  /\ access = NotFollowed
  /\ limiter = NotFollowed

NextScore ==
  \/ \E severity \in {Severities[i] : i \in DOMAIN Severities} : AddAnomaly(severity)
  \/ \E i \in 1..MaxAlerts, severity \in {Severities[j] : j \in DOMAIN Severities} :
       RaiseSeverity(i, severity)

SpecScore == InitScore /\ [][NextScore]_vars

\* ------------------------------------------------ aiCoPilot: the sweeps
\* A Date is a number of minutes; At(day, hour, minute) is a local date
At(day, hour, minute) == (day * 24 + hour) * 60 + minute
getHours(date) == (date \div 60) % 24

\* Date.now() as the sweeps read it: the clock is the same for the sweeps
\* followed, which lie within a few minutes
SweepTime == At(1, 23, 0)

\* the two places that start a sweep: startMonitoring's initial analysis and
\* the interval's callback
SweepIds == {"initial", "interval"}
ProfileOrder == <<"p1", "p2">>
ProfileIds == {ProfileOrder[i] : i \in DOMAIN ProfileOrder}

\* ConsentRequest.find({'dataOwner.address': userId, createdAt: {$gte: ...}})
recentRequests(history, t) ==
  SelectSeq(history, LAMBDA req : req.createdAt >= t - 24 * 60)

\* the sum of requests.length draws of Math.random() * 100 + 50 lies from
\* 50 * length up to 150 * length: its least value, and a value above each of
\* the two volumes the sweep compares it with where the sum can be above it
DataVolumes(requests) ==
  {50 * Len(requests)}
    \cup {limit + 1 : limit \in {v \in {alertThresholds.dataVolumeThreshold, 2000} :
                                   50 * Len(requests) <= v /\ v + 1 < 150 * Len(requests)}}

\* calculateAccessPattern; timeOfDay holds each hour once (requester, dayOfWeek
\* and accessDuration are read by nothing and are left out)
calculateAccessPattern(requests, dataVolume) ==
  [frequency |-> Len(requests),
   timeOfDay |-> {getHours(requests[i].createdAt) : i \in DOMAIN requests},
   dataVolume |-> dataVolume]

NoPattern == [frequency |-> 0, timeOfDay |-> {}, dataVolume |-> 0]

\* deniedRequests.length / recentRequests.length > 0.1; 0 / 0 is NaN, and
\* NaN > 0.1 is false
violationRateExceeds(denied, total) == total > 0 /\ 10 * denied > total

\* the list checkForAnomalies builds, with the hour test of a mutated rule 3
detectedAnomaliesNoHours(accessPattern, requests) ==
  LET denied == Len(SelectSeq(requests, LAMBDA req : req.status = "denied"))
  IN (IF Len(requests) > alertThresholds.unusualAccessFrequency
        THEN <<Anomaly("unusual_access", "warning", "frequency")>> ELSE <<>>)
     \o (IF accessPattern.dataVolume > alertThresholds.dataVolumeThreshold
           THEN <<Anomaly("data_breach", "error", "volume")>> ELSE <<>>)
     \o (IF violationRateExceeds(denied, Len(requests))
           THEN <<Anomaly("consent_violation", "error", "violation")>> ELSE <<>>)

\* the list checkForAnomalies builds: frequency, volume, unusual hours, denied
\* rate
detectedAnomalies(accessPattern, requests) ==
  LET unusualHours == {hour \in accessPattern.timeOfDay : hour < 6 \/ hour > 22}
      denied == Len(SelectSeq(requests, LAMBDA req : req.status = "denied"))
  IN (IF Len(requests) > alertThresholds.unusualAccessFrequency
        THEN <<Anomaly("unusual_access", "warning", "frequency")>> ELSE <<>>)
     \o (IF accessPattern.dataVolume > alertThresholds.dataVolumeThreshold
           THEN <<Anomaly("data_breach", "error", "volume")>> ELSE <<>>)
     \o (IF unusualHours # {}
           THEN <<Anomaly("unusual_access", "warning", "hours")>> ELSE <<>>)
     \o (IF violationRateExceeds(denied, Len(requests))
           THEN <<Anomaly("consent_violation", "error", "violation")>> ELSE <<>>)

\* the risk level updateAnomalyScore sets for a score
riskLevelOf(score) ==
  IF score >= 90 THEN "critical"
  ELSE IF score >= 75 THEN "high"
  ELSE IF score >= 50 THEN "medium"
  ELSE "low"

\* updateAnomalyScore on a loaded document, before its save
updateAnomalyScore(doc, score) ==
  [doc EXCEPT !.anomalyScore = score, !.riskLevel = riskLevelOf(score)]

\* a new AIAnalytics document: the schema's defaults
NewProfile(userId) ==
  [userId |-> userId, isActive |-> TRUE, accessPattern |-> NoPattern,
   anomalyScore |-> 0, riskLevel |-> "low", alerts |-> <<>>]

\* what a sweep holds of a document it loaded: the paths whose change a save
\* writes
Loaded(doc) == [anomalyScore |-> doc.anomalyScore, riskLevel |-> doc.riskLevel]

\* a sweep: origin is "none" or the place that started it; pc is "idle" | "find" |
\* "requests" | "score" | "alerts" | "detect" | "done" | "rejected"; users are
\* the documents found and copies what was loaded of each; i is the document
\* in work, anomalies its list and k the next anomaly to add; analysed are the
\* documents whose analysis completed and failedOn where the sweep threw
IdleSweep ==
  [origin |-> "none", pc |-> "idle", users |-> <<>>, copies |-> <<>>, i |-> 0,
   accessPattern |-> NoPattern, anomalies |-> <<>>, k |-> 0,
   analysed |-> {}, failedOn |-> NoValue]

\* ConsentRequest documents of one owner: createdAt and status
Requests(n, createdAt, status) ==
  [i \in 1..n |-> [createdAt |-> createdAt, status |-> status]]

Histories ==
  {<<>>,
   Requests(1, At(0, 3, 0), "approved") \o Requests(1, At(1, 6, 0), "approved"),
   Requests(1, At(1, 22, 30), "pending"),
   Requests(1, At(1, 3, 0), "pending"),
   Requests(5, At(1, 12, 0), "approved") \o Requests(1, At(1, 3, 0), "pending"),
   Requests(5, At(1, 12, 0), "approved") \o Requests(1, At(1, 22, 30), "pending"),
   Requests(5, At(1, 12, 0), "approved") \o Requests(1, At(1, 3, 0), "denied")
     \o Requests(1, At(1, 13, 0), "pending")}

OtherHistory == Requests(1, At(1, 12, 0), "pending")

\* the sums the draws of Math.random() can make for these histories
VolumeDraws ==
  UNION {DataVolumes(recentRequests(history, SweepTime)) :
           history \in Histories \cup {OtherHistory}}

otherThanMonitor ==
  <<ledgerVars, auditLog, mfa, zkp, ssi, userDoc, ipfs, scoring, merkle, access, limiter>>

\* analyzeDataUsage of a sweep is running
InFlight(c) == monitor.sweeps[c].pc \in {"find", "requests", "score", "alerts"}

\* analyzeDataUsage of a sweep has returned
Returned(c) == monitor.sweeps[c].pc \in {"detect", "done", "rejected"}

\* the requests of a profile's owner that a sweep reads
RecentOf(p) == recentRequests(monitor.history[monitor.profiles[p].userId], SweepTime)

\* where a sweep goes when analyzeDataUsage returns: the initial analysis is
\* over; the interval's callback goes on to its next statement
AfterAnalysis(sweep) ==
  [sweep EXCEPT !.pc = IF sweep.origin = "interval" THEN "detect" ELSE "done"]

\* the catch of analyzeDataUsage: the error is logged and the function returns
Caught(sweep, where) == AfterAnalysis([sweep EXCEPT !.failedOn = where])

\* the for loop of analyzeDataUsage goes to the next document, or ends
NextDocument(sweep) ==
  LET done == [sweep EXCEPT !.analysed = @ \cup {sweep.users[sweep.i]}]
  IN IF sweep.i < Len(sweep.users)
       THEN [done EXCEPT !.i = @ + 1, !.pc = "requests"]
       ELSE AfterAnalysis(done)

\* startMonitoring: the interval is set and the initial analysis is started
StartMonitoring ==
  /\ monitor.alive
  /\ ~monitor.started
  /\ monitor' = [monitor EXCEPT
       !.started = TRUE,
       !.sweeps["initial"] = [IdleSweep EXCEPT !.origin = "initial", !.pc = "find"]]
  /\ UNCHANGED otherThanMonitor

\* the interval fires: its callback starts, whatever the initial analysis is
\* doing (a tick is followed when the callback of the tick before it is over)
IntervalFire ==
  /\ monitor.alive
  /\ monitor.started
  /\ monitor.ticks < MaxTicks
  /\ monitor.sweeps["interval"].pc \in {"idle", "rejected"}
  /\ monitor' = [monitor EXCEPT
       !.ticks = @ + 1,
       !.sweeps["interval"] = [IdleSweep EXCEPT !.origin = "interval", !.pc = "find"]]
  /\ UNCHANGED otherThanMonitor

\* analyzeDataUsage: AIAnalytics.find({'monitoringConfig.isActive': true})
AnalyzeDataUsage(c, dbOk) ==
  /\ monitor.alive
  /\ monitor.sweeps[c].pc = "find"
  /\ LET sweep == monitor.sweeps[c]
         users == SelectSeq(ProfileOrder, LAMBDA p : monitor.profiles[p].isActive)
         found == [sweep EXCEPT
                     !.users = users,
                     !.copies = [i \in DOMAIN users |-> Loaded(monitor.profiles[users[i]])],
                     !.i = 1, !.pc = "requests"]
     IN monitor' = [monitor EXCEPT !.sweeps[c] =
          IF ~dbOk THEN Caught(sweep, "find")
          ELSE IF users = <<>> THEN AfterAnalysis(found)
          ELSE found]
  /\ UNCHANGED otherThanMonitor

\* analyzeUserPatterns up to checkForAnomalies' list: find the recent
\* requests, calculate the access pattern, save it, build the anomalies
AnalyzeUserPatterns(c, dataVolume, dbOk) ==
  /\ monitor.alive
  /\ monitor.sweeps[c].pc = "requests"
  /\ LET sweep == monitor.sweeps[c]
         p == sweep.users[sweep.i]
         requests == recentRequests(monitor.history[monitor.profiles[p].userId], SweepTime)
         accessPattern == calculateAccessPattern(requests, dataVolume)
     IN /\ dataVolume \in DataVolumes(requests)
        /\ monitor' =
             IF ~dbOk THEN [monitor EXCEPT !.sweeps[c] = Caught(sweep, p)]
             ELSE [monitor EXCEPT
                     !.profiles[p].accessPattern = accessPattern,
                     !.sweeps[c] = [sweep EXCEPT
                        !.accessPattern = accessPattern,
                        !.anomalies = detectedAnomalies(accessPattern, requests),
                        !.pc = "score"]]
  /\ UNCHANGED otherThanMonitor

\* checkForAnomalies: calculateAnomalyScore and updateAnomalyScore; the save
\* writes the paths whose value is not the one loaded
UpdateAnomalyScore(c, dbOk) ==
  /\ monitor.alive
  /\ monitor.sweeps[c].pc = "score"
  /\ LET sweep == monitor.sweeps[c]
         p == sweep.users[sweep.i]
         copy == sweep.copies[sweep.i]
         updated == updateAnomalyScore(copy,
                      calculateAnomalyScore(sweep.anomalies, sweep.accessPattern))
         saved == [sweep EXCEPT !.copies[sweep.i] = updated, !.k = 1, !.pc = "alerts"]
     IN monitor' =
          IF ~dbOk THEN [monitor EXCEPT !.sweeps[c] = Caught(sweep, p)]
          ELSE [monitor EXCEPT
                  !.profiles[p].anomalyScore =
                     IF updated.anomalyScore # copy.anomalyScore
                       THEN updated.anomalyScore ELSE @,
                  !.profiles[p].riskLevel =
                     IF updated.riskLevel # copy.riskLevel THEN updated.riskLevel ELSE @,
                  !.sweeps[c] = IF sweep.anomalies = <<>> THEN NextDocument(saved) ELSE saved]
  /\ UNCHANGED otherThanMonitor

\* checkForAnomalies: addAlert of the next anomaly (push and save), then
\* emitToUser(userId, 'ai_alert', ...), whose ReferenceError leaves the loop
\* for the catch of analyzeDataUsage; emitted is what became of the latest
\* 'ai_alert' event ("none" before the first)
AddAlert(c, dbOk, emit) ==
  /\ monitor.alive
  /\ monitor.sweeps[c].pc = "alerts"
  /\ LET sweep == monitor.sweeps[c]
         p == sweep.users[sweep.i]
     IN monitor' =
          IF ~dbOk THEN [monitor EXCEPT !.sweeps[c] = Caught(sweep, p)]
          ELSE [monitor EXCEPT
                  !.profiles[p].alerts = Append(@, sweep.anomalies[sweep.k]),
                  !.emitted = emit,
                  !.sweeps[c] = IF emit = "threw" THEN Caught(sweep, p)
                                ELSE IF sweep.k < Len(sweep.anomalies)
                                  THEN [sweep EXCEPT !.k = @ + 1]
                                  ELSE NextDocument(sweep)]
  /\ UNCHANGED otherThanMonitor

\* the interval's callback after analyzeDataUsage: this.detectAnomalies is not
\* a function, the call throws a TypeError and the callback's promise is
\* rejected with nothing to handle it; the runtime ends the process or goes on
DetectAnomalies(c, exits) ==
  /\ monitor.alive
  /\ monitor.sweeps[c].pc = "detect"
  /\ monitor' = [monitor EXCEPT !.sweeps[c].pc = "rejected", !.alive = ~exits]
  /\ UNCHANGED otherThanMonitor

InitMonitor ==
  /\ InitLedger
  /\ mfa = NotFollowed
  /\ zkp = NotFollowed
  /\ ssi = NotFollowed
  /\ userDoc = NotFollowed
  /\ ipfs = NotFollowed
  /\ \E history \in Histories :
       monitor = [started |-> FALSE, alive |-> TRUE, ticks |-> 0,
                  history |-> [u \in {"0xowner", "0xother"} |->
                                 IF u = "0xowner" THEN history ELSE OtherHistory],
                  profiles |-> [p \in ProfileIds |->
                                 NewProfile(IF p = "p1" THEN "0xowner" ELSE "0xother")],
                  emitted |-> "none",
                  sweeps |-> [c \in SweepIds |-> IdleSweep]]
  /\ scoring = NotFollowed
  /\ merkle = NotFollowed
  /\ access = NotFollowed
  /\ limiter = NotFollowed

NextMonitor ==
  \/ StartMonitoring
  \/ IntervalFire
  \/ \E c \in SweepIds, dbOk \in BOOLEAN : AnalyzeDataUsage(c, dbOk)
  \/ \E c \in SweepIds, dataVolume \in VolumeDraws, dbOk \in BOOLEAN :
       AnalyzeUserPatterns(c, dataVolume, dbOk)
  \/ \E c \in SweepIds, dbOk \in BOOLEAN : UpdateAnomalyScore(c, dbOk)
  \/ \E c \in SweepIds, dbOk \in BOOLEAN, emit \in emitToUser : AddAlert(c, dbOk, emit)
  \/ \E c \in SweepIds, exits \in BOOLEAN : DetectAnomalies(c, exits)

SpecMonitor == InitMonitor /\ [][NextMonitor]_vars

\* the event loop runs every callback and continuation that is ready
SpecMonitorFair == InitMonitor /\ [][NextMonitor]_vars /\ WF_vars(NextMonitor)

\* ------------------------------------------------- aiCoPilot: monitorUser
\* The AIAnalytics collection beside the monitorUser calls in flight. The
\* index on {userId, dataType} is not unique, so the collection is a list of
\* documents and a save always inserts. A call: pc is "idle" | "save" |
\* "analyze" | "done" | "threw".
MonitoredUsers == {"0xowner", "0xother"}
MonitoredTypes == {"medical", "financial"}

IdleMonitorCall == [pc |-> "idle", userId |-> NoValue, dataType |-> NoValue]

\* await AIAnalytics.findOne({ userId, dataType }): the first match, if any
findOne(collection, userId, dataType) ==
  \E i \in DOMAIN collection :
    collection[i].userId = userId /\ collection[i].dataType = dataType

\* monitorUser up to its first await: the query; a document found goes to the
\* analysis, none found goes on to the save of a new one
MonitorUser(c, userId, dataType, dbOk) ==
  /\ monitor.calls[c].pc = "idle"
  /\ monitor' = [monitor EXCEPT !.calls[c] =
       [pc |-> IF ~dbOk THEN "threw"
               ELSE IF findOne(monitor.collection, userId, dataType) THEN "analyze"
               ELSE "save",
        userId |-> userId, dataType |-> dataType]]
  /\ UNCHANGED otherThanMonitor

\* await userAnalytics.save() of the new AIAnalytics document
MonitorUserSave(c, dbOk) ==
  /\ monitor.calls[c].pc = "save"
  /\ monitor' =
       IF ~dbOk THEN [monitor EXCEPT !.calls[c].pc = "threw"]
       ELSE [monitor EXCEPT
               !.collection = Append(@, [userId |-> monitor.calls[c].userId,
                                         dataType |-> monitor.calls[c].dataType]),
               !.calls[c].pc = "analyze"]
  /\ UNCHANGED otherThanMonitor

\* await this.analyzeUserPatterns(userAnalytics), which writes the pattern,
\* score and alerts of that document only; the document is returned, or the
\* error of a failed query or save is thrown again
MonitorUserAnalyze(c, dbOk) ==
  /\ monitor.calls[c].pc = "analyze"
  /\ monitor' = [monitor EXCEPT !.calls[c].pc = IF dbOk THEN "done" ELSE "threw"]
  /\ UNCHANGED otherThanMonitor

InitMonitorUser ==
  /\ InitLedger
  /\ mfa = NotFollowed
  /\ zkp = NotFollowed
  /\ ssi = NotFollowed
  /\ userDoc = NotFollowed
  /\ ipfs = NotFollowed
  /\ monitor = [collection |-> <<>>, calls |-> [c \in CallIds |-> IdleMonitorCall]]
  /\ scoring = NotFollowed
  /\ merkle = NotFollowed
  /\ access = NotFollowed
  /\ limiter = NotFollowed

NextMonitorUser ==
  \/ \E c \in CallIds, userId \in MonitoredUsers, dataType \in MonitoredTypes,
        dbOk \in BOOLEAN : MonitorUser(c, userId, dataType, dbOk)
  \/ \E c \in CallIds, dbOk \in BOOLEAN : MonitorUserSave(c, dbOk)
  \/ \E c \in CallIds, dbOk \in BOOLEAN : MonitorUserAnalyze(c, dbOk)

SpecMonitorUser == InitMonitorUser /\ [][NextMonitorUser]_vars

\* ------------------------------------------- zkp-service: the Merkle tree
\* the data items, and the lists followed: the non-empty ones
Items == {"a", "b", "c"}
DataLists == UNION {[1..n -> Items] : n \in 1..MaxItems}

\* Math.ceil(Math.log2(n)) for n >= 1
ceilLog2(n) == CHOOSE k \in 0..n : 2^k >= n /\ (k = 0 \/ 2^(k - 1) < n)

\* one level of buildMerkleTree: the pairs from the left, each hashed; the
\* last node of an odd level is paired with itself. A hash is a hex string and
\* left + right joins two of them
nextLevel(leaves) ==
  [j \in 1..((Len(leaves) + 1) \div 2) |->
     LET left == leaves[2 * j - 1]
         right == IF 2 * j <= Len(leaves) THEN leaves[2 * j] ELSE left
     IN sha256(left \o right)]

\* one level that takes the last node of an odd level up as it is
nextLevelCarry(leaves) ==
  [j \in 1..((Len(leaves) + 1) \div 2) |->
     IF 2 * j <= Len(leaves) THEN sha256(leaves[2 * j - 1] \o leaves[2 * j])
     ELSE leaves[2 * j - 1]]

\* buildMerkleTree that does not duplicate the odd node
RECURSIVE buildMerkleTreeCarry(_)
buildMerkleTreeCarry(leaves) ==
  IF Len(leaves) = 1 THEN [root |-> leaves[1], levels |-> 0]
  ELSE LET above == buildMerkleTreeCarry(nextLevelCarry(leaves))
       IN [root |-> above.root, levels |-> above.levels + 1]

\* buildMerkleTree: the root, and the number of levels the recursion hashed
RECURSIVE buildMerkleTree(_)
buildMerkleTree(leaves) ==
  IF Len(leaves) = 1 THEN [root |-> leaves[1], levels |-> 0]
  ELSE LET above == buildMerkleTree(nextLevel(leaves))
       IN [root |-> above.root, levels |-> above.levels + 1]

NoTree == [root |-> NoHash, leaves |-> <<>>, treeHeight |-> 0, levels |-> 0]

\* generateMerkleTree of a non-empty list
generateMerkleTree(dataList) ==
  LET leaves == [i \in DOMAIN dataList |-> sha256(JSONstringify(dataList[i]))]
      built == buildMerkleTree(leaves)
  IN [root |-> built.root, leaves |-> leaves,
      treeHeight |-> ceilLog2(Len(leaves)), levels |-> built.levels]

otherThanMerkle ==
  <<ledgerVars, auditLog, mfa, zkp, ssi, userDoc, ipfs, monitor, scoring, access, limiter>>

GenerateMerkleTree ==
  /\ ~merkle.generated
  /\ merkle' = [merkle EXCEPT !.generated = TRUE,
                              !.tree = generateMerkleTree(merkle.dataList)]
  /\ UNCHANGED otherThanMerkle

InitMerkle ==
  /\ InitLedger
  /\ mfa = NotFollowed
  /\ zkp = NotFollowed
  /\ ssi = NotFollowed
  /\ userDoc = NotFollowed
  /\ ipfs = NotFollowed
  /\ monitor = NotFollowed
  /\ scoring = NotFollowed
  /\ \E dataList \in DataLists :
       merkle = [dataList |-> dataList, generated |-> FALSE, tree |-> NoTree]
  /\ access = NotFollowed
  /\ limiter = NotFollowed

NextMerkle == GenerateMerkleTree

SpecMerkle == InitMerkle /\ [][NextMerkle]_vars

\* ------------------------- zkp-service: generateMerkleTree, call by call
\* The recursion of buildMerkleTree followed one call at a time, for every
\* list, the empty one included. pc is "idle" | "build" | "done" | "threw";
\* level is the argument of the current call; frames counts the calls on the
\* stack. The engine keeps a frame for each call and throws a RangeError at
\* the call that does not fit, which the catch of generateMerkleTree logs and
\* throws again.
IdleBuild(dataList) ==
  [dataList |-> dataList, pc |-> "idle", level |-> <<>>, frames |-> 0,
   root |-> NoHash]

\* generateMerkleTree: the leaves are hashed and buildMerkleTree is called
GenerateMerkleTreeCall ==
  /\ merkle.pc = "idle"
  /\ merkle' = [merkle EXCEPT
       !.pc = "build",
       !.level = [i \in DOMAIN merkle.dataList |->
                    sha256(JSONstringify(merkle.dataList[i]))],
       !.frames = 1]
  /\ UNCHANGED otherThanMerkle

\* one call of buildMerkleTree: a level of one node is the root; any other
\* level is hashed into the next one, and the function calls itself
BuildMerkleTree ==
  /\ merkle.pc = "build"
  /\ merkle' =
       IF Len(merkle.level) = 1
         THEN [merkle EXCEPT !.pc = "done", !.root = merkle.level[1]]
       ELSE IF merkle.frames = MaxFrames
         THEN [merkle EXCEPT !.pc = "threw"]
       ELSE [merkle EXCEPT !.level = nextLevel(merkle.level), !.frames = @ + 1]
  /\ UNCHANGED otherThanMerkle

InitMerkleBuild ==
  /\ InitLedger
  /\ mfa = NotFollowed
  /\ zkp = NotFollowed
  /\ ssi = NotFollowed
  /\ userDoc = NotFollowed
  /\ ipfs = NotFollowed
  /\ monitor = NotFollowed
  /\ scoring = NotFollowed
  /\ \E dataList \in DataLists \cup {<<>>} : merkle = IdleBuild(dataList)
  /\ access = NotFollowed
  /\ limiter = NotFollowed

NextMerkleBuild ==
  \/ GenerateMerkleTreeCall
  \/ BuildMerkleTree

SpecMerkleBuild == InitMerkleBuild /\ [][NextMerkleBuild]_vars

\* ------------------------------------ SecurityMiddleware.verifyDataAccess
\* request bodies: a field that is missing holds NoValue
AccessBodies ==
  {[dataCID |-> dataCID, metadataCID |-> "QmMeta", userAddress |-> userAddress,
    dataType |-> dataType] :
     dataCID \in {NoValue, "QmData", "QmUnknown"},
     userAddress \in {NoValue, "0xowner", "0xstranger"},
     dataType \in {NoValue, "medical", "financial"}}

NoAccessBody ==
  [dataCID |-> NoValue, metadataCID |-> NoValue, userAddress |-> NoValue,
   dataType |-> NoValue]

\* req.dataAccess before the middleware sets it
NoDataAccess ==
  [dataCID |-> NoValue, metadataCID |-> NoValue, dataType |-> NoValue,
   userAddress |-> NoValue, accessGranted |-> FALSE, proof |-> NoZkProof]

\* one run: pc is "idle" | "exists" | "proof" | "verify" | "done"; checked
\* tells that dataExists has answered and exists what it answered; status is
\* the response's status (0: none sent) and next tells that next() was called
IdleAccess ==
  [pc |-> "idle", body |-> NoAccessBody, checked |-> FALSE, exists |-> FALSE,
   proof |-> NoZkProof, status |-> 0, error |-> NoValue, next |-> FALSE,
   dataAccess |-> NoDataAccess]

\* verifyDataAccess from the body to the response, with the clock read at
\* generateDataAccessProof and at verifyDataAccessProof: the status sent, or
\* "next" when req.dataAccess is set and next() is called
verifyDataAccess(body, ipfsUp, tProof, tVerify) ==
  IF body.dataCID = NoValue \/ body.userAddress = NoValue \/ body.dataType = NoValue
    THEN "400"
  ELSE IF ~dataExists(body.dataCID, ipfsUp) THEN "404"
  ELSE LET accessProof ==
             generateDataAccessProof(body.userAddress, body.dataType, "read", tProof)
           accessVerification ==
             verifyDataAccessProof(accessProof, body.userAddress, body.dataType,
                                   "read", tVerify)
       IN IF ~accessVerification.accessGranted THEN "403" ELSE "next"

otherThanAccess ==
  <<ledgerVars, auditLog, mfa, zkp, ssi, userDoc, ipfs, monitor, scoring, merkle, limiter>>

\* the body is read; 400 when a required field is missing
VerifyDataAccess(body) ==
  /\ access.pc = "idle"
  /\ access' =
       IF body.dataCID = NoValue \/ body.userAddress = NoValue \/ body.dataType = NoValue
         THEN [access EXCEPT !.pc = "done", !.body = body, !.status = 400,
                             !.error = "Data CID, user address, and data type required"]
         ELSE [access EXCEPT !.pc = "exists", !.body = body]
  /\ UNCHANGED otherThanAccess

\* await ipfsService.dataExists(dataCID); 404 when it answers false
AccessDataExists(ipfsUp) ==
  /\ access.pc = "exists"
  /\ LET exists == dataExists(access.body.dataCID, ipfsUp)
     IN access' =
          IF ~exists
            THEN [access EXCEPT !.pc = "done", !.checked = TRUE, !.exists = FALSE,
                                !.status = 404, !.error = "Data not found on IPFS"]
            ELSE [access EXCEPT !.pc = "proof", !.checked = TRUE, !.exists = TRUE]
  /\ UNCHANGED otherThanAccess

\* await zkpService.generateDataAccessProof(userAddress, dataType, 'read')
AccessGenerateProof ==
  /\ access.pc = "proof"
  /\ access' = [access EXCEPT
       !.pc = "verify",
       !.proof = generateDataAccessProof(access.body.userAddress, access.body.dataType,
                                         "read", now)]
  /\ UNCHANGED otherThanAccess

\* await zkpService.verifyDataAccessProof(...); 403 when access is not
\* granted, else req.dataAccess is set and next() is called
AccessVerifyProof ==
  /\ access.pc = "verify"
  /\ LET accessVerification ==
           verifyDataAccessProof(access.proof, access.body.userAddress,
                                 access.body.dataType, "read", now)
     IN access' =
          IF ~accessVerification.accessGranted
            THEN [access EXCEPT !.pc = "done", !.status = 403,
                                !.error = "Access denied to this data"]
            ELSE [access EXCEPT
                    !.pc = "done", !.next = TRUE,
                    !.dataAccess = [dataCID |-> access.body.dataCID,
                                    metadataCID |-> access.body.metadataCID,
                                    dataType |-> access.body.dataType,
                                    userAddress |-> access.body.userAddress,
                                    accessGranted |-> TRUE, proof |-> access.proof]]
  /\ UNCHANGED otherThanAccess

InitAccess ==
  /\ InitLedger
  /\ mfa = NotFollowed
  /\ zkp = NotFollowed
  /\ ssi = NotFollowed
  /\ userDoc = NotFollowed
  /\ ipfs = NotFollowed
  /\ monitor = NotFollowed
  /\ scoring = NotFollowed
  /\ merkle = NotFollowed
  /\ access = IdleAccess
  /\ limiter = NotFollowed

NextAccess ==
  \/ \E t \in ProofTimes : ProofTick(t)
  \/ \E body \in AccessBodies : VerifyDataAccess(body)
  \/ \E ipfsUp \in BOOLEAN : AccessDataExists(ipfsUp)
  \/ AccessGenerateProof
  \/ AccessVerifyProof

SpecAccess == InitAccess /\ [][NextAccess]_vars

\* ------------------------------- SecurityMiddleware.rateLimitSecurity
windowMs == 60000
maxRequests == 10

\* Date.now() at a step of the clock: the steps followed are half a minute apart
DateNow(t) == t * 30000

RateAddresses == {"0xowner", NoValue}

\* req.securityRateLimit as the middleware finds it: nothing else sets the
\* property and every request has a req object of its own, so it is undefined
\* and the middleware makes a new Map
NewMap == [a \in RateAddresses \ {NoValue} |-> <<>>]

\* rateLimitSecurity on a map of request times: the status ("400", "429", or
\* "next") and the map it leaves on req
rateLimitSecurity(securityRateLimit, userAddress, t) ==
  IF userAddress = NoValue THEN [status |-> "400", map |-> securityRateLimit]
  ELSE LET userRequests == securityRateLimit[userAddress]
           validRequests == SelectSeq(userRequests, LAMBDA time : t - time < windowMs)
       IN IF Len(validRequests) >= maxRequests
            THEN [status |-> "429", map |-> securityRateLimit]
            ELSE [status |-> "next",
                  map |-> [securityRateLimit EXCEPT
                             ![userAddress] = Append(validRequests, t)]]

otherThanLimiter ==
  <<ledgerVars, auditLog, mfa, zkp, ssi, userDoc, ipfs, monitor, scoring, merkle, access>>

\* a request to /security/multi-factor or /security/data-access reaches the
\* middleware; `admitted` keeps the times of the requests that went on to next()
RateLimitSecurity(userAddress) ==
  /\ limiter.requests < MaxRequests
  /\ LET t == DateNow(limiter.clock)
         res == rateLimitSecurity(NewMap, userAddress, t)
     IN limiter' = [limiter EXCEPT
          !.requests = @ + 1,
          !.status = res.status,
          !.admitted = IF res.status = "next" THEN Append(@, t) ELSE @]
  /\ UNCHANGED otherThanLimiter

RateTick ==
  /\ limiter.clock < MaxRateTicks
  /\ limiter' = [limiter EXCEPT !.clock = @ + 1]
  /\ UNCHANGED otherThanLimiter

InitLimiter ==
  /\ InitLedger
  /\ mfa = NotFollowed
  /\ zkp = NotFollowed
  /\ ssi = NotFollowed
  /\ userDoc = NotFollowed
  /\ ipfs = NotFollowed
  /\ monitor = NotFollowed
  /\ scoring = NotFollowed
  /\ merkle = NotFollowed
  /\ access = NotFollowed
  /\ limiter = [clock |-> 0, requests |-> 0, status |-> "none", admitted |-> <<>>]

NextLimiter ==
  \/ RateTick
  \/ \E userAddress \in RateAddresses : RateLimitSecurity(userAddress)

SpecLimiter == InitLimiter /\ [][NextLimiter]_vars

\* ====================================================== consent ledger claims
TransitionOps == {"approve", "deny", "revoke"}

AllowedTransitions == {<<"pending", "approved">>, <<"pending", "denied">>,
                       <<"pending", "expired">>, <<"approved", "revoked">>}

Done(c) == calls[c].pc = "done"

\* C1: the stored status of a request changes only along pending->approved,
\* pending->denied, pending->expired and approved->revoked (the first store
\* of the document by create is not a transition).
C1_TransitionsFollowGraph ==
  [][(request.status # "none" /\ request'.status # request.status)
       => <<request.status, request'.status>> \in AllowedTransitions]_vars

\* C2: an approve and a deny on the same request never both answer success.
C2_ExactlyOneWinner ==
  \A c1, c2 \in CallIds :
    (Done(c1) /\ Done(c2) /\ calls[c1].op = "approve" /\ calls[c2].op = "deny")
      => ~(calls[c1].result = "ok" /\ calls[c2].result = "ok")

\* C3: a handler that loads the request after its expiresAt has passed never
\* shows it as pending, and never approves or denies it.
C3_ExpiredObservedOnNextAccess ==
  \A c \in CallIds :
    (Done(c) /\ calls[c].overdue) =>
      /\ calls[c].op = "get" => calls[c].seen # "pending"
      /\ calls[c].op \in {"approve", "deny"} => calls[c].result # "ok"

\* C4: a request that is approved, denied or revoked never becomes expired.
C4_NoExpiryAfterResponse ==
  [][request.status \in {"approved", "denied", "revoked"}
       => request'.status # "expired"]_vars

\* C5: approve, deny and revoke succeed only for the data owner; a call by
\* anyone else on a stored request answers Forbidden, whatever the status,
\* and writes nothing.
C5_OnlyOwnerTransitions ==
  \A c \in CallIds :
    calls[c].op \in TransitionOps =>
      /\ calls[c].result = "ok" => calls[c].actor = request.owner
      /\ (calls[c].actor # request.owner /\ calls[c].result # "NotFound")
           => /\ Done(c)
              /\ calls[c].result = "Forbidden"
              /\ ~calls[c].wrote
              /\ ~calls[c].chained

\* a non-owner's approve was answered Forbidden on a request that was stored
\* as expired, so never pending
C5_Witness ==
  \E c \in CallIds :
    /\ calls[c].op = "approve"
    /\ calls[c].actor # request.owner
    /\ calls[c].result = "Forbidden"
    /\ lastCreate.status = "expired"
    /\ request.status = "expired"

\* C6: a create with a required field absent or with an expiresAt that is not
\* in the future answers a validation error and stores nothing; a document
\* that create stores starts as pending.
C6_CreateValidates ==
  /\ (lastCreate.result # "none"
        /\ (~lastCreate.complete \/ lastCreate.expiresAt <= lastCreate.at))
       => (lastCreate.result = "ValidationError" /\ lastCreate.status = "none")
  /\ lastCreate.status # "none" => lastCreate.status = "pending"

\* C7: a transition answered as failed has written nothing, and an approve
\* answered as successful has written both the status and the settlement record.
C7_AllOrNothing ==
  \A c \in CallIds :
    (Done(c) /\ calls[c].op \in TransitionOps) =>
      /\ calls[c].result # "ok" => (~calls[c].wrote /\ ~calls[c].chained)
      /\ (calls[c].op = "approve" /\ calls[c].result = "ok")
           => (calls[c].wrote /\ calls[c].chained)

\* C8: a successful transition has exactly one notification and exactly one
\* audit record; a failed one has neither.
C8_OneAuditOneNotification ==
  \A c \in CallIds :
    (Done(c) /\ calls[c].op \in TransitionOps) =>
      LET n == Cardinality({x \in notifications : x.call = c})
          a == Cardinality({x \in auditLog : x.call = c})
      IN IF calls[c].result = "ok" THEN n = 1 /\ a = 1 ELSE n = 0 /\ a = 0

\* ================================================= verification gate claims
GateRank(gate) ==
  CASE gate = "ens" -> 1 [] gate = "zkp" -> 2 [] gate = "ssi" -> 3 [] gate = "ipfs" -> 4

\* the gate was evaluated in this run and passed
Passed(gate) == \E i \in 1..Len(mfa.ran) : mfa.ran[i].gate = gate /\ mfa.ran[i].pass

\* C9: the gates are evaluated in the order identity, proof, credential,
\* storage; nothing is evaluated after a failure, which is the response; and a
\* run passes only if the identity gate and the gate of every supplied input
\* (proof, presentation, content address) passed.
C9_OrderedShortCircuit ==
  /\ \A i, j \in 1..Len(mfa.ran) :
       i < j => (GateRank(mfa.ran[i].gate) < GateRank(mfa.ran[j].gate) /\ mfa.ran[i].pass)
  /\ (Len(mfa.ran) > 0 /\ ~mfa.ran[Len(mfa.ran)].pass)
       => (mfa.pc = "done" /\ mfa.response \notin {"none", "ok"})
  /\ (mfa.verification.set \/ mfa.response = "ok") =>
       /\ Passed("ens")
       /\ mfa.body.zkpProof.supplied => Passed("zkp")
       /\ mfa.body.ssiPresentation.supplied => Passed("ssi")
       /\ mfa.body.dataCID # NoValue => Passed("ipfs")

\* C10: a sub-check is recorded as verified only if its gate was evaluated in
\* this run and passed.
C10_RecordedOnlyIfVerified ==
  /\ mfa.verification.ensVerified => Passed("ens")
  /\ mfa.verification.zkpVerified => Passed("zkp")
  /\ mfa.verification.ssiVerified => Passed("ssi")
  /\ mfa.verification.dataAccessVerified => Passed("ipfs")

\* C11: every invocation of the pipeline, passed or failed at a gate, has
\* produced exactly one audit record when it has answered.
C11_OneAuditPerInvocation ==
  mfa.pc = "done" => Cardinality(auditLog) = 1

\* C12: when the gates have passed and storing the audit record fails, the
\* request still reaches its handler and the caller receives the successful
\* result.
C12_AuditFailureDoesNotAbort ==
  (mfa.pc = "done" /\ mfa.verification.set /\ auditLog = {}) => mfa.response = "ok"

\* the gates passed, storeAuditLog failed, and the handler answered success
C12_Witness ==
  /\ mfa.pc = "done"
  /\ mfa.verification.set
  /\ auditLog = {}
  /\ mfa.response = "ok"

\* C13: a gate answers a verification failure (identity not owned, credential
\* invalid, content not found) only when the verification fails with its
\* external service reachable; an unreachable service is answered with a
\* different, transient kind.
C13_OutageIsTransient ==
  /\ mfa.response = "ENSFailed"
       => ~verifyENSOwnership(mfa.body.ensName, mfa.body.userAddress, TRUE)
  /\ mfa.response = "SSIFailed"
       => ~verifyPresentation(mfa.body.ssiPresentation, mfa.body.challenge, now, TRUE)
  /\ mfa.response = "NotFound"
       => ~dataExists(mfa.body.dataCID, TRUE)

\* ===================================================== proof service claims
\* C14: verifyDataAccessProof grants access if and only if the proof's stored
\* hash is the hash of (userId, dataType, accessLevel), the proof is less than
\* one hour old and its nonce has exactly the fixed length; it never raises,
\* a malformed proof included.
C14_DataAccessGranted ==
  zkp.last.proofType = "dataAccess" =>
    /\ ~zkp.last.raised
    /\ zkp.last.accessGranted <=>
         (/\ zkp.proof.accessHash = sha256(AccessString(zkp.last.data.userId,
                                                         zkp.last.data.dataType,
                                                         zkp.last.data.accessLevel))
          /\ zkp.last.at - zkp.proof.timestamp < DataAccessWindow
          /\ zkp.proof.nonceLen = NonceLength)

\* a generated data-access proof was verified for the access it was generated
\* for and granted
C14_Witness ==
  /\ zkp.origin = "generated"
  /\ zkp.proof.made = "access"
  /\ zkp.last.proofType = "dataAccess"
  /\ zkp.last.accessGranted

C16_ProofUsedOnce ==
  zkp.uses <= 1

\* ================================================ credential service claims
\* C17: a presentation that wraps a credential revoked before the run is
\* rejected.
C17_RevokedCredentialRejected ==
  (ssi.last.ran /\ \E cred \in ssi.last.presentation.creds : cred.id \in ssi.last.revoked)
    => ~ssi.last.isValid

\* C19: a signed presentation is accepted if and only if it is not expired,
\* its nonce is the supplied challenge, its holder DID resolves and every
\* wrapped credential passes verifyCredential; a signed credential passes
\* verifyCredential if and only if it is not expired and its issuer and
\* subject DIDs resolve.
C19_PresentationAccepted ==
  LET run == ssi.last
      p == run.presentation
  IN (run.ran /\ p.signed) =>
       /\ run.isValid <=>
            (/\ run.at < p.exp
             /\ p.nonce = run.challenge
             /\ resolveDID(p.iss, run.didUp)
             /\ \A cred \in p.creds : verifyCredential(cred, run.at, run.didUp))
       /\ \A cred \in p.creds :
            cred.signed =>
              (verifyCredential(cred, run.at, run.didUp) <=>
                 (/\ run.at < cred.exp
                  /\ resolveDID(cred.iss, run.didUp)
                  /\ resolveDID(cred.sub, run.didUp)))

\* a signed presentation with matching challenge and resolving holder was
\* rejected because one of its two credentials had expired
C19_Witness ==
  LET run == ssi.last
      p == run.presentation
  IN /\ run.ran /\ p.signed /\ run.didUp
     /\ run.at < p.exp
     /\ p.nonce = run.challenge
     /\ p.iss = "did:holder"
     /\ \E c1, c2 \in p.creds : c1.exp > run.at /\ c2.signed /\ c2.exp <= run.at
     /\ ~run.isValid

\* ========================================================= User document claims
\* C18: every step keeps each stored credential in its place in the set, and
\* keeps a revoked credential revoked.
C18_RevocationMonotonic ==
  [][/\ Len(userDoc'.ssiCredentials) >= Len(userDoc.ssiCredentials)
     /\ \A i \in 1..Len(userDoc.ssiCredentials) :
          /\ userDoc'.ssiCredentials[i].credentialHash
               = userDoc.ssiCredentials[i].credentialHash
          /\ userDoc.ssiCredentials[i].isRevoked
               => userDoc'.ssiCredentials[i].isRevoked]_vars

\* a revoked credential is still in the set, revoked, with a credential of the
\* same hash added after it and not revoked
C18_Witness ==
  /\ Len(userDoc.ssiCredentials) = 2
  /\ userDoc.ssiCredentials[1].isRevoked
  /\ userDoc.ssiCredentials[2].credentialHash = userDoc.ssiCredentials[1].credentialHash
  /\ ~userDoc.ssiCredentials[2].isRevoked
  /\ \E c \in CallIds : userDoc.calls[c].op = "add" /\ userDoc.calls[c].result = "ok"

C21_DerivedKeyNeverHandedOut ==
  /\ (/\ ipfs.stored.ok
      /\ ipfs.stored.userAddress # NoValue
      /\ ipfs.got.read
      /\ ipfs.got.dataCID = ipfs.stored.dataCID
      /\ ipfs.got.metadataCID = ipfs.stored.metadataCID
      /\ ipfs.got.encryptionKey
           = medicalEncryptionKey(ipfs.stored.userAddress, ipfs.stored.dataType))
       => (ipfs.got.status = "ok" /\ ipfs.got.data = ipfs.stored.data)
  /\ ipfs.stored.ok =>
       /\ \A block \in ipfs.blocks :
            /\ block.iv # ipfs.stored.encryptionKey
            /\ block.metadata.type # ipfs.stored.encryptionKey
            /\ block.metadata.userAddress # ipfs.stored.encryptionKey
            /\ block.encryptedData.iv # ipfs.stored.encryptionKey
            /\ block.encryptedData.algorithm # ipfs.stored.encryptionKey
       /\ ipfs.stored.returnedKey = NoValue

\* ============================================================ monitor claims
\* the number of anomalies of a severity in the list scored
CountSeverity(severity) ==
  Cardinality({i \in DOMAIN scoring.anomalies : scoring.anomalies[i].severity = severity})

\* C22: the anomaly score is the sum of the per-alert severity weights
\* (critical 30, error 20, warning 10, info 5) plus the frequency and volume
\* bonuses, capped at 100; it is in 0..100 and does not decrease when an alert
\* is added or the severity of an alert is raised.
C22_ScoreIsCappedWeightedSum ==
  LET sum == 30 * CountSeverity("critical") + 20 * CountSeverity("error")
               + 10 * CountSeverity("warning") + 5 * CountSeverity("info")
               + (IF scoring.accessPattern.frequency > 10 THEN 15 ELSE 0)
               + (IF scoring.accessPattern.dataVolume > 2000 THEN 20 ELSE 0)
  IN /\ scoring.score = IF sum > 100 THEN 100 ELSE sum
     /\ scoring.score \in 0..100
     /\ scoring.change # "none" => scoring.score >= scoring.before

\* an added alert took the sum past 100 and the score to the cap
C22_Witness ==
  /\ scoring.change = "added"
  /\ scoring.before < 100
  /\ scoring.score = 100
  /\ sumWeights(scoring.anomalies) > 100

C24_RiskIsStepOfScore ==
  \A p \in ProfileIds :
    monitor.profiles[p].riskLevel =
      (IF monitor.profiles[p].anomalyScore < 50 THEN "low"
       ELSE IF monitor.profiles[p].anomalyScore < 75 THEN "medium"
       ELSE IF monitor.profiles[p].anomalyScore < 90 THEN "high"
       ELSE "critical")

\* C25: with the history unchanged, a profile that sweeps have analysed holds,
\* once no sweep is running, what one sweep leaves: the alerts of one pass over
\* its access pattern, the score of those alerts and the risk level of that
\* score.
C25_SweepIdempotent ==
  (\A c \in SweepIds : ~InFlight(c)) =>
    \A p \in ProfileIds :
      (\E c \in SweepIds : p \in monitor.sweeps[c].analysed) =>
        LET once == detectedAnomalies(monitor.profiles[p].accessPattern, RecentOf(p))
            score == calculateAnomalyScore(once, monitor.profiles[p].accessPattern)
        IN /\ monitor.profiles[p].alerts = once
           /\ monitor.profiles[p].anomalyScore = score
           /\ monitor.profiles[p].riskLevel = riskLevelOf(score)

\* C26: at most one sweep is running at any time.
C26_SingleFlight ==
  Cardinality({c \in SweepIds : InFlight(c)}) <= 1

\* C27: when a sweep failed on one profile, every other active profile it
\* found has been analysed by the time the sweep returns.
C27_FailureIsolatedPerProfile ==
  \A c \in SweepIds :
    (Returned(c) /\ monitor.sweeps[c].failedOn \in ProfileIds) =>
      \A i \in DOMAIN monitor.sweeps[c].users :
        monitor.sweeps[c].users[i] # monitor.sweeps[c].failedOn
          => monitor.sweeps[c].users[i] \in monitor.sweeps[c].analysed

\* C30: the list of anomalies a sweep built for a profile holds the
\* unusual-hours alert if and only if one of the profile's recent requests
\* was created outside 06:00-22:00 (before 06:00 or after 22:00).
C30_OffHoursRule ==
  \A c \in SweepIds :
    monitor.sweeps[c].pc \in {"score", "alerts"} =>
      LET recent == RecentOf(monitor.sweeps[c].users[monitor.sweeps[c].i])
      IN (\E k \in DOMAIN monitor.sweeps[c].anomalies :
            monitor.sweeps[c].anomalies[k].rule = "hours")
         <=> (\E j \in DOMAIN recent :
                \/ recent[j].createdAt % (24 * 60) < 6 * 60
                \/ recent[j].createdAt % (24 * 60) > 22 * 60)

\* ======================================================= Merkle tree claims
\* the hash of a data item, and of two hashes joined
ItemHash(item) == sha256(JSONstringify(item))
PairHash(left, right) == sha256(left \o right)

\* C28: the root of a one-item list is the item's hash; the root of [a, b, c]
\* is hash(hash(hash(a) + hash(b)) + hash(hash(c) + hash(c))); treeHeight is
\* ceil(log2(n)), the number of hashing levels built.
C28_MerkleRoot ==
  merkle.generated =>
    LET list == merkle.dataList
        n == Len(list)
    IN /\ n = 1 => merkle.tree.root = ItemHash(list[1])
       /\ n = 3 => merkle.tree.root =
                     PairHash(PairHash(ItemHash(list[1]), ItemHash(list[2])),
                              PairHash(ItemHash(list[3]), ItemHash(list[3])))
       /\ 2^merkle.tree.treeHeight >= n
       /\ merkle.tree.treeHeight > 0 => 2^(merkle.tree.treeHeight - 1) < n
       /\ merkle.tree.treeHeight = merkle.tree.levels

\* the tree of a list of three distinct items has been generated
C28_Witness ==
  /\ merkle.generated
  /\ merkle.dataList = <<"a", "b", "c">>
  /\ merkle.tree.treeHeight = 2
  /\ merkle.tree.root # NoHash

\* ======================================================= data access claims
\* C29: when dataExists answered false, the run ended with 404 'Data not
\* found on IPFS', next() was not called and no access record was attached to
\* the request; an access record is attached only for an address the node
\* holds.
C29_NoAccessToMissingContent ==
  /\ (access.checked /\ ~access.exists) =>
       /\ access.pc = "done"
       /\ access.status = 404
       /\ access.error = "Data not found on IPFS"
       /\ ~access.next
       /\ access.dataAccess = NoDataAccess
  /\ access.dataAccess.accessGranted =>
       /\ access.exists
       /\ access.body.dataCID \in StoredCIDs

\* a run for an address the node does not hold ended with 404
C29_Witness ==
  /\ access.body.dataCID = "QmUnknown"
  /\ access.checked
  /\ access.status = 404
  /\ access.dataAccess = NoDataAccess

\* C31: the alerts of a profile are append-only (a step leaves the stored
\* alerts as a prefix of the new list), and a step that appends an alert
\* emits its notification event.
C31_AppendOnlyAndNotified ==
  [][\A p \in ProfileIds :
       LET old == monitor.profiles[p].alerts
           new == monitor'.profiles[p].alerts
       IN /\ Len(new) >= Len(old)
          /\ SubSeq(new, 1, Len(old)) = old
          /\ Len(new) > Len(old) => monitor'.emitted = "delivered"]_vars

\* C32: whenever the analysis step of an interval tick completes, the
\* callback of that tick eventually enters insight generation.
C32_TickReachesInsights ==
  (monitor.sweeps["interval"].pc = "detect")
    ~> (monitor.sweeps["interval"].pc = "insights")

\* C33: a request that is pending after its expiresAt has passed is
\* eventually expired by the periodic cleanup, unless it is approved or
\* denied first.
C33_OverdueEventuallyExpired ==
  (request.status = "pending" /\ isExpired(request.expiresAt, now))
    ~> (request.status \in {"expired", "approved", "denied"})

\* the cleanup has expired the request and told the requester
C33_Witness ==
  /\ request.status = "expired"
  /\ [call |-> 0, event |-> "consent_request_expired"] \in notifications

\* C34: the limiter admits at most 10 requests of one address within any
\* one-minute window: an 11th admitted request is at least a minute after
\* the 1st of the ten before it.
C34_AtMostTenPerWindow ==
  \A i, j \in DOMAIN limiter.admitted :
    j - i = maxRequests => limiter.admitted[j] - limiter.admitted[i] >= windowMs

\* C35: a request carries a settlement record (blockchainData) only if its
\* status is approved or revoked, and a pending request carries no
\* respondedAt.
C35_SettlementOnlyWhenApproved ==
  /\ request.blockchainData => request.status \in {"approved", "revoked"}
  /\ request.status = "pending" => request.respondedAt = NoDate

\* C36: a data-access proof generated for (userId, dataType, accessLevel)
\* grants access for no other triple, one whose '-'-joined string is the same
\* included.
C36_ProofBoundToTriple ==
  (/\ zkp.origin = "generated"
   /\ zkp.proof.made = "access"
   /\ zkp.last.proofType = "dataAccess"
   /\ zkp.last.data # zkp.madeFor)
    => ~zkp.last.accessGranted

\* C37: the outcome of verifyDataAccess depends on the caller: two requests
\* for the same content address the node holds, which differ only in the user
\* address or the data type they name and meet the same node and the same
\* clock (the proof generated at some reading up to now, and verified now),
\* receive different outcomes at the proof step.
C37_OutcomeDependsOnCaller ==
  \E b1, b2 \in AccessBodies, ipfsUp \in BOOLEAN, tProof \in ProofTimes \cup {0} :
    /\ tProof <= now
    /\ b1.dataCID \in StoredCIDs
    /\ b2 \in {[b1 EXCEPT !.userAddress = u, !.dataType = d] :
                 u \in {"0xowner", "0xstranger"}, d \in {"medical", "financial"}}
    /\ b1.userAddress # NoValue
    /\ b1.dataType # NoValue
    /\ verifyDataAccess(b1, ipfsUp, tProof, now)
         # verifyDataAccess(b2, ipfsUp, tProof, now)

\* C38: the collection holds at most one anomaly profile for an owner and a
\* data category, whatever the interleaving of monitorUser calls.
C38_OneProfilePerOwnerAndCategory ==
  \A i, j \in DOMAIN monitor.collection :
    (/\ monitor.collection[i].userId = monitor.collection[j].userId
     /\ monitor.collection[i].dataType = monitor.collection[j].dataType)
      => i = j

\* C39: generateMerkleTree ends for every list, the empty one included, in a
\* number of steps bounded by the list: buildMerkleTree is called at most
\* once more than the list has items before it returns the root or an error
\* is reported.
C39_LevelBuildingIsBounded ==
  merkle.frames <= Len(merkle.dataList) + 1
====
